---- MODULE Spec2Model ----
(***************************************************************************)
(* Round-robin fixture generation of the league admin application:         *)
(*   - the server handler POST /api/fixtures/generate                      *)
(*     (apps/admin/app/api/fixtures/generate/route.ts), and                *)
(*   - the client component FixtureGenerator with its preview function     *)
(*     generateRoundRobinPreview (components/FixtureGenerator.tsx).        *)
(*                                                                         *)
(* A JavaScript Date is modelled by its time value: the instant in UTC,    *)
(* as a record [t |-> whole minutes since the model epoch, sub |->         *)
(* milliseconds within the minute].  The model epoch is 2026-10-01T00:00Z, *)
(* a Thursday (as 1970-01-01 is, so WeekDay is ECMAScript's formula).      *)
(* The local-time methods (getDay, getDate, setDate, setHours) go through  *)
(* the time zone of the runtime that executes them.                        *)
(***************************************************************************)
EXTENDS Integers, Sequences, FiniteSets, TLC

VARIABLES
    clock,        \* the latest instant `new Date()` has read
    serverTZ,     \* time zone of the Node runtime of the route handlers
    clientTZ,     \* time zone of the browser running FixtureGenerator
    teamName,     \* table teams: team id -> name
    teamLeague,   \* table teams: team id -> league_id (NoLeague: null)
    fixtures,     \* table fixtures: the rows, in insertion order
    req,          \* the calls of POST /api/fixtures/generate: their frames
    teams,        \* FixtureGenerator state `teams`
    preview,      \* FixtureGenerator state `preview`
    loading,      \* FixtureGenerator state `loading`
    fetching,     \* GET /api/teams requests of fetchTeams in flight
    generating,   \* FixtureGenerator state `generating`
    inflight,     \* the call handleGenerate awaits (0: none)
    error,        \* FixtureGenerator state `error`
    split,        \* vendor portal: what calculateRevenueSplit last returned
    order,        \* table orders: the outcome of the last INSERT
    moves,        \* the calls of POST and DELETE /api/leagues/{leagueId}/teams
    dragDrop,     \* TeamDragDrop state: unassigned, leagueTeams, loading, error
    drags,        \* TeamDragDrop: the calls of onDragEnd that await a response
    lists         \* TeamDragDrop: the calls of fetchLists that await responses

\* what the fixture generation leaves alone: the time zones of the runtimes,
\* the vendor portal, and the assignment of teams to the league
vendorVars == <<split, order>>
assignVars == <<moves, dragDrop, drags, lists>>
envVars == <<serverTZ, clientTZ, vendorVars, assignVars>>
dbVars == <<teamName, teamLeague, fixtures>>
clientVars == <<teams, preview, loading, fetching, generating, inflight, error>>
vars == <<clock, envVars, dbVars, req, clientVars>>

----------------------------------------------------------------------------
(* Bounds of the model *)

\* the largest number of team rows
MaxTeams == 5

\* the largest number of calls of POST /api/fixtures/generate
MaxRequests == 2

\* the largest price of a kit, in cents, of the range of prices
MaxPriceCents == 400

\* the largest number of calls of POST or DELETE /api/leagues/{leagueId}/teams
MaxMoves == 1

\* the largest number of drags from one list of TeamDragDrop to the other
MaxDrags == 2

\* the largest number of rows of the table fixtures, where calls for the
\* same league overlap
MaxFixtures == 3

----------------------------------------------------------------------------
(* Calendar and ECMAScript Date arithmetic *)

MinutesPerDay == 24 * 60

\* lengths of the months from October 2026 on (the epoch's month is index 0)
MonthLengths == <<31, 30, 31, 31, 28, 31, 30, 31, 30, 31, 31, 30>>

RECURSIVE DaysBefore(_)
\* the days of the months before month m (0-based)
DaysBefore(m) == IF m = 0 THEN 0 ELSE DaysBefore(m - 1) + MonthLengths[m]

\* the day numbers of the first days of the months
MonthStarts == [m \in 0..(Len(MonthLengths) - 1) |-> DaysBefore(m)]

\* day number of the first day of month m (0-based)
MonthStart(m) == MonthStarts[m]

\* ECMAScript MonthFromTime, on a day number
MonthFromDay(day) ==
    CHOOSE m \in 0..(Len(MonthLengths) - 1) :
        MonthStart(m) <= day /\ day < MonthStart(m) + MonthLengths[m + 1]

\* ECMAScript DateFromTime: the day of the month, 1-based
DateFromDay(day) == day - MonthStart(MonthFromDay(day)) + 1

\* ECMAScript MakeDay(year, month, date): date may lie outside the month,
\* the day number then runs over into the neighbouring months
MakeDay(month, date) == MonthStart(month) + date - 1

\* ECMAScript WeekDay: 0 is Sunday ... 6 is Saturday; day 0 is a Thursday
WeekDay(day) == (day + 4) % 7

\* A time zone: the offset std (minutes east of UTC) up to the instant
\* `change`, and std + shift from then on (shift = 0: no transition).
TZOffset(tz, t) == IF tz.shift # 0 /\ t >= tz.change THEN tz.std + tz.shift ELSE tz.std

\* ECMAScript LocalTime(t)
LocalTime(tz, t) == t + TZOffset(tz, t)

\* ECMAScript UTC(t): a local time in the gap or the overlap of a
\* transition is read with the offset in force before the transition
UTCTime(tz, l) ==
    IF tz.shift = 0 \/ l - tz.std < tz.change THEN l - tz.std
    ELSE IF l - tz.std - tz.shift >= tz.change THEN l - tz.std - tz.shift
    ELSE l - tz.std

\* Date.prototype.getDay()
GetDay(tz, d) == WeekDay(LocalTime(tz, d.t) \div MinutesPerDay)

\* Date.prototype.getDate()
GetDate(tz, d) == DateFromDay(LocalTime(tz, d.t) \div MinutesPerDay)

\* Date.prototype.setDate(date)
SetDate(tz, d, date) ==
    LET l == LocalTime(tz, d.t)
        day == MakeDay(MonthFromDay(l \div MinutesPerDay), date)
    IN  [t |-> UTCTime(tz, day * MinutesPerDay + (l % MinutesPerDay)), sub |-> d.sub]

\* Date.prototype.setHours(hours, min, sec, ms)
SetHours(tz, d, hours, min, sec, ms) ==
    LET l == LocalTime(tz, d.t)
    IN  [t |-> UTCTime(tz, (l \div MinutesPerDay) * MinutesPerDay + hours * 60 + min),
         sub |-> sec * 1000 + ms]

\* Date.prototype.toISOString(): the UTC calendar fields of the instant
ToISOString(d) ==
    [month |-> MonthFromDay(d.t \div MinutesPerDay),
     date  |-> DateFromDay(d.t \div MinutesPerDay),
     hours |-> (d.t % MinutesPerDay) \div 60,
     min   |-> d.t % 60,
     sub   |-> d.sub]

\* new Date(string) on the string of toISOString
FromISOString(iso) ==
    [t |-> MakeDay(iso.month, iso.date) * MinutesPerDay + iso.hours * 60 + iso.min,
     sub |-> iso.sub]

\* instant a is not later than instant b
NotAfter(a, b) == a.t < b.t \/ (a.t = b.t /\ a.sub <= b.sub)

----------------------------------------------------------------------------
(* The environment: time zones and the instants the clock is read at *)

UTCZone == [std |-> 0, change |-> 0, shift |-> 0]

\* US Eastern: UTC-4 until 2026-11-01T06:00Z, UTC-5 from then on
NewYork == [std |-> -240, change |-> 31 * MinutesPerDay + 6 * 60, shift |-> -60]

\* Japan: UTC+9, no transition
Tokyo == [std |-> 540, change |-> 0, shift |-> 0]

TimeZones == {UTCZone, NewYork, Tokyo}

\* an instant of October 2026, from its UTC date and time of day
October(date, hours, min, sub) ==
    [t |-> (date - 1) * MinutesPerDay + hours * 60 + min, sub |-> sub]

\* the instants the clock is read at in a session of the admin page:
\* Saturday 2026-10-24 00:30Z (Friday evening in New York) and Saturday
\* 2026-10-31 14:00Z (10:00 in New York, the day before its transition)
SessionInstants == {October(24, 0, 30, 0), October(31, 14, 0, 0)}

\* instants over one week, Saturday 2026-10-24 to Friday 2026-10-30, each
\* day at 00:30:00.000, 10:00:00.000, 14:00:00.000 and 23:59:59.999 UTC
WeekInstants ==
    {October(date, 0, 30, 0) : date \in 24..30}
    \cup {October(date, 10, 0, 0) : date \in 24..30}
    \cup {October(date, 14, 0, 0) : date \in 24..30}
    \cup {October(date, 23, 59, 59999) : date \in 24..30}

\* the value of a Date variable before its declaration is reached
NoDate == [t |-> 0, sub |-> 0]

----------------------------------------------------------------------------
(* The database: tables teams and fixtures *)

\* teams.id is a UUID: no row has the id of the synthetic bye entry
AllIds == <<"t1", "t2", "t3", "t4", "t5", "t6", "t7", "t8">>

TeamIds == {AllIds[i] : i \in 1..MaxTeams}

\* teams.name is TEXT NOT NULL and not unique.  Names in use: every team
\* under a name of its own (t3 is a real team that is called BYE) ...
DistinctNames(id) ==
    CASE id = "t1" -> "Dynamo"
      [] id = "t2" -> "Ajax"
      [] id = "t3" -> "BYE"
      [] id = "t4" -> "Celtic"
      [] id = "t5" -> "Everton"
      [] id = "t6" -> "Fulham"
      [] id = "t7" -> "Genoa"
      [] OTHER     -> "Hibernian"

\* ... or t1 and t2 under the same name
SharedName(id) == IF id = "t1" THEN "Ajax" ELSE DistinctNames(id)

\* the collation of the names: their position in ascending order
NameRank(name) ==
    CASE name = "Ajax"    -> 1
      [] name = "BYE"     -> 2
      [] name = "Celtic"  -> 3
      [] name = "Dynamo"  -> 4
      [] name = "Everton" -> 5
      [] name = "Fulham"  -> 6
      [] name = "Genoa"   -> 7
      [] OTHER            -> 8

NoLeague == "null"

\* a second league, and the leagueId of a request body that has none
OtherLeagueId == "L2"
MissingLeagueId == ""

\* the league the FixtureGenerator component is mounted for
LeagueId == "L1"

RECURSIVE AscendingByName(_, _)
\* the orders of the team ids S that ascend by name
AscendingByName(names, S) ==
    IF S = {} THEN {<<>>}
    ELSE LET first == {x \in S : \A y \in S : NameRank(names[x]) <= NameRank(names[y])}
         IN  UNION {{<<x>> \o rest : rest \in AscendingByName(names, S \ {x})} : x \in first}

\* prisma.team.findMany({ where: { leagueId }, orderBy: { name: 'asc' },
\* select: { id, name } }): the rows of the league ascending by name; the
\* order among rows of equal name is whatever the database returns
FindManyTeams(names, leagues, leagueId) ==
    {[i \in 1..Len(o) |-> [id |-> o[i], name |-> names[o[i]]]] :
        o \in AscendingByName(names, {id \in TeamIds : leagues[id] = leagueId})}

----------------------------------------------------------------------------
(* JavaScript array helpers *)

\* a relative index of Array.prototype.slice, resolved against the length
SliceIndex(k, len) == IF k < 0 THEN (IF len + k < 0 THEN 0 ELSE len + k)
                      ELSE (IF k > len THEN len ELSE k)

\* Array.prototype.slice(start, end), 0-based, end exclusive
Slice(s, start, end) ==
    LET from == SliceIndex(start, Len(s))
        to   == SliceIndex(end, Len(s))
    IN  IF to <= from THEN <<>> ELSE [i \in 1..(to - from) |-> s[from + i]]

\* Array.prototype.slice(start): up to the end of the array
SliceFrom(s, start) == Slice(s, start, Len(s))

----------------------------------------------------------------------------
(* POST /api/fixtures/generate *)

\* the id of the synthetic entry pushed for an odd roster
BYE == "BYE"

\* SrvDaysUntilSat without the || 7
SrvDaysUntilSatSameDay(tz, now) == ((6 - GetDay(tz, now)) + 7) % 7

\* const daysUntilSat = ((6 - now.getDay()) + 7) % 7 || 7
SrvDaysUntilSat(tz, now) ==
    LET d == ((6 - GetDay(tz, now)) + 7) % 7 IN IF d = 0 THEN 7 ELSE d

\* start: next Saturday at 10:00
SrvStart(tz, now) ==
    SetHours(tz, SetDate(tz, now, GetDate(tz, now) + SrvDaysUntilSat(tz, now)), 10, 0, 0, 0)

\* SrvRoundDate with the sign of the offset inverted (start.getDate() -
\* round * 7)
SrvRoundDateBackwards(tz, start, round) ==
    SetDate(tz, start, GetDate(tz, start) - round * 7)

\* SrvRoundDate by adding round * 7 * 24 hours to the instant of start
SrvRoundDateByHours(tz, start, round) ==
    [t |-> start.t + round * 7 * MinutesPerDay, sub |-> start.sub]

\* roundDate = new Date(start); roundDate.setDate(start.getDate() + round * 7)
SrvRoundDate(tz, start, round) == SetDate(tz, start, GetDate(tz, start) + round * 7)

\* SrvItems with the parity test inverted (the BYE entry pushed when the
\* number of teams is even)
SrvItemsPadEven(ts) ==
    IF Len(ts) % 2 = 0 THEN Append(ts, [id |-> BYE, name |-> BYE]) ELSE ts

\* SrvItems without the BYE entry
SrvItemsNoBye(ts) == ts

\* items: the teams, and the BYE entry pushed when their number is odd
SrvItems(ts) == IF Len(ts) % 2 = 1 THEN Append(ts, [id |-> BYE, name |-> "BYE"]) ELSE ts

RECURSIVE SrvPairsAwayFirst(_, _, _)
\* SrvPairs with the sides exchanged (homeTeamId: t2.id, awayTeamId: t1.id)
SrvPairsAwayFirst(rotation, n, i) ==
    IF ~(2 * i < n) THEN <<>>
    ELSE LET t1 == rotation[i + 1]
             t2 == rotation[n - 1 - i + 1]
         IN  IF t1.id = BYE \/ t2.id = BYE
             THEN SrvPairsAwayFirst(rotation, n, i + 1)
             ELSE <<[homeId |-> t2.id, awayId |-> t1.id]>>
                  \o SrvPairsAwayFirst(rotation, n, i + 1)

RECURSIVE SrvPairsWholeArray(_, _, _)
\* SrvPairs with the loop running over the whole array (i < n)
SrvPairsWholeArray(rotation, n, i) ==
    IF ~(i < n) THEN <<>>
    ELSE LET t1 == rotation[i + 1]
             t2 == rotation[n - 1 - i + 1]
         IN  IF t1.id = BYE \/ t2.id = BYE
             THEN SrvPairsWholeArray(rotation, n, i + 1)
             ELSE <<[homeId |-> t1.id, awayId |-> t2.id]>>
                  \o SrvPairsWholeArray(rotation, n, i + 1)

RECURSIVE SrvPairsKeepBye(_, _, _)
\* SrvPairs without the test that skips the BYE entry
SrvPairsKeepBye(rotation, n, i) ==
    IF ~(2 * i < n) THEN <<>>
    ELSE <<[homeId |-> rotation[i + 1].id, awayId |-> rotation[n - 1 - i + 1].id]>>
         \o SrvPairsKeepBye(rotation, n, i + 1)

RECURSIVE SrvPairsShort(_, _, _)
\* SrvPairs with the loop stopping one pair short of half (i < half - 1)
SrvPairsShort(rotation, n, i) ==
    IF ~(2 * (i + 1) < n) THEN <<>>
    ELSE LET t1 == rotation[i + 1]
             t2 == rotation[n - 1 - i + 1]
         IN  IF t1.id = BYE \/ t2.id = BYE
             THEN SrvPairsShort(rotation, n, i + 1)
             ELSE <<[homeId |-> t1.id, awayId |-> t2.id]>>
                  \o SrvPairsShort(rotation, n, i + 1)

RECURSIVE SrvPairs(_, _, _)
\* the pairs of one round: for (let i = 0; i < half; i++), half = n / 2
SrvPairs(rotation, n, i) ==
    IF ~(2 * i < n) THEN <<>>
    ELSE LET t1 == rotation[i + 1]
             t2 == rotation[n - 1 - i + 1]
         IN  IF t1.id = BYE \/ t2.id = BYE
             THEN SrvPairs(rotation, n, i + 1)
             ELSE <<[homeId |-> t1.id, awayId |-> t2.id]>> \o SrvPairs(rotation, n, i + 1)

\* SrvRotate turning the other way: the element at index 1 goes to the end
\* ([rotation[0], ...rotation.slice(2), ...rotation.slice(1, 2)])
SrvRotateForward(rotation) ==
    <<rotation[1]>> \o SliceFrom(rotation, 2) \o Slice(rotation, 1, 2)

\* SrvRotate with the first element rotated along with the others
SrvRotateAll(rotation) == SliceFrom(rotation, -1) \o Slice(rotation, 0, -1)

\* rotation = [rotation[0], ...rotation.slice(1).slice(-1), ...rotation.slice(1, -1)]
SrvRotate(rotation) ==
    <<rotation[1]>> \o SliceFrom(SliceFrom(rotation, 1), -1) \o Slice(rotation, 1, -1)

\* the frame of a call: its local variables and where it stands
\* a response body: the text of new NextResponse(text, ...) or the value of
\* NextResponse.json(value)
NoBody == [text |-> "", json |-> <<>>]
TextBody(text) == [text |-> text, json |-> <<>>]
JsonBody(value) == [text |-> "", json |-> value]

\* the calls of the prisma client a handler has issued, as it logs them
FindManyCall(leagueId) == [op |-> "team.findMany", leagueId |-> leagueId]
CreateCall(data) == [op |-> "fixture.create", data |-> data]

NewFrame(leagueId) ==
    [pc |-> "start", leagueId |-> leagueId, teams |-> <<>>, n |-> 0, rounds |-> 0,
     now |-> NoDate, start |-> NoDate, rotation |-> <<>>, round |-> 0,
     roundDate |-> NoDate, pairs |-> <<>>, p |-> 0, createdFixtures |-> <<>>,
     calls |-> <<>>, status |-> 0, body |-> NoBody]

\* PostLoadTeams without the test of leagueId
PostLoadTeamsNoCheck(r) ==
    /\ req[r].pc = "start"
    /\ \E ts \in FindManyTeams(teamName, teamLeague, req[r].leagueId) :
          IF Len(ts) < 2
          THEN req' = [req EXCEPT ![r].pc = "done", ![r].status = 400,
                                  ![r].calls = Append(@, FindManyCall(req[r].leagueId)),
                                  ![r].body = TextBody("At least two teams are required")]
          ELSE req' = [req EXCEPT ![r].pc = "build", ![r].teams = ts,
                                  ![r].calls = Append(@, FindManyCall(req[r].leagueId))]
    /\ UNCHANGED <<clock, envVars, dbVars, clientVars>>

\* PostLoadTeams with the test teams.length < 1
PostLoadTeamsOneTeam(r) ==
    /\ req[r].pc = "start"
    /\ IF req[r].leagueId = MissingLeagueId
       THEN req' = [req EXCEPT ![r].pc = "done", ![r].status = 400,
                               ![r].body = TextBody("Missing leagueId")]
       ELSE \E ts \in FindManyTeams(teamName, teamLeague, req[r].leagueId) :
              IF Len(ts) < 1
              THEN req' = [req EXCEPT ![r].pc = "done", ![r].status = 400,
                                      ![r].calls = Append(@, FindManyCall(req[r].leagueId)),
                                      ![r].body = TextBody("At least two teams are required")]
              ELSE req' = [req EXCEPT ![r].pc = "build", ![r].teams = ts,
                                      ![r].calls = Append(@, FindManyCall(req[r].leagueId))]
    /\ UNCHANGED <<clock, envVars, dbVars, clientVars>>

\* lines 13-25: the body is read, the teams of the league are loaded
PostLoadTeams(r) ==
    /\ req[r].pc = "start"
    /\ IF req[r].leagueId = MissingLeagueId
       THEN req' = [req EXCEPT ![r].pc = "done", ![r].status = 400,
                               ![r].body = TextBody("Missing leagueId")]
       ELSE \E ts \in FindManyTeams(teamName, teamLeague, req[r].leagueId) :
              IF Len(ts) < 2
              THEN req' = [req EXCEPT ![r].pc = "done", ![r].status = 400,
                                      ![r].calls = Append(@, FindManyCall(req[r].leagueId)),
                                      ![r].body = TextBody("At least two teams are required")]
              ELSE req' = [req EXCEPT ![r].pc = "build", ![r].teams = ts,
                                      ![r].calls = Append(@, FindManyCall(req[r].leagueId))]
    /\ UNCHANGED <<clock, envVars, dbVars, clientVars>>

\* PostBuild preceded by prisma.fixture.deleteMany({ where: { leagueId } }):
\* the fixtures of the league are replaced, not added to
PostBuildReplacing(r, instants) ==
    /\ req[r].pc = "build"
    /\ \E now \in instants :
          /\ NotAfter(clock, now)
          /\ clock' = now
          /\ LET items == SrvItems(req[r].teams)
             IN  req' = [req EXCEPT ![r].pc = "loop",
                                    ![r].n = Len(items),
                                    ![r].rounds = Len(items) - 1,
                                    ![r].now = now,
                                    ![r].start = SrvStart(serverTZ, now),
                                    ![r].rotation = SliceFrom(items, 0),
                                    ![r].createdFixtures = <<>>,
                                    ![r].round = 0]
    /\ fixtures' = SelectSeq(fixtures, LAMBDA f : f.leagueId # req[r].leagueId)
    /\ UNCHANGED <<envVars, teamName, teamLeague, clientVars>>

\* PostBuild with items being the array teams itself, not a copy of it:
\* the BYE entry is pushed onto the roster
PostBuildInPlace(r, instants) ==
    /\ req[r].pc = "build"
    /\ \E now \in instants :
          /\ NotAfter(clock, now)
          /\ clock' = now
          /\ LET items == SrvItems(req[r].teams)
             IN  req' = [req EXCEPT ![r].pc = "loop",
                                    ![r].teams = items,
                                    ![r].n = Len(items),
                                    ![r].rounds = Len(items) - 1,
                                    ![r].now = now,
                                    ![r].start = SrvStart(serverTZ, now),
                                    ![r].rotation = SliceFrom(items, 0),
                                    ![r].createdFixtures = <<>>,
                                    ![r].round = 0]
    /\ UNCHANGED <<envVars, dbVars, clientVars>>

\* the array s in reverse order
Reverse(s) == [i \in 1..Len(s) |-> s[Len(s) + 1 - i]]

\* PostBuild with the rotation array reversed on the toss of a coin
PostBuildShuffled(r, instants) ==
    /\ req[r].pc = "build"
    /\ \E now \in instants :
          /\ NotAfter(clock, now)
          /\ clock' = now
          /\ LET items == SrvItems(req[r].teams)
             IN  \E shuffled \in {items, Reverse(items)} :
                   req' = [req EXCEPT ![r].pc = "loop",
                                      ![r].n = Len(items),
                                      ![r].rounds = Len(items) - 1,
                                      ![r].now = now,
                                      ![r].start = SrvStart(serverTZ, now),
                                      ![r].rotation = shuffled,
                                      ![r].createdFixtures = <<>>,
                                      ![r].round = 0]
    /\ UNCHANGED <<envVars, dbVars, clientVars>>

\* lines 28-46: items, n, rounds, half, the start date, the rotation
PostBuild(r, instants) ==
    /\ req[r].pc = "build"
    /\ \E now \in instants :
          /\ NotAfter(clock, now)
          /\ clock' = now
          /\ LET items == SrvItems(req[r].teams)
             IN  req' = [req EXCEPT ![r].pc = "loop",
                                    ![r].n = Len(items),
                                    ![r].rounds = Len(items) - 1,
                                    ![r].now = now,
                                    ![r].start = SrvStart(serverTZ, now),
                                    ![r].rotation = SliceFrom(items, 0),
                                    ![r].createdFixtures = <<>>,
                                    ![r].round = 0]
    /\ UNCHANGED <<envVars, dbVars, clientVars>>

\* lines 48-58: the loop test, the date and the pairs of the round
PostRound(r) ==
    /\ req[r].pc = "loop"
    /\ req[r].round < req[r].rounds
    /\ req' = [req EXCEPT ![r].pc = "persist",
                          ![r].roundDate = SrvRoundDate(serverTZ, req[r].start, req[r].round),
                          ![r].pairs = SrvPairs(req[r].rotation, req[r].n, 0),
                          ![r].p = 1]
    /\ UNCHANGED <<clock, envVars, dbVars, clientVars>>

\* CreateData with scheduledAt: start
CreateDataAtStart(r) ==
    [leagueId |-> req[r].leagueId,
     homeTeamId |-> req[r].pairs[req[r].p].homeId,
     awayTeamId |-> req[r].pairs[req[r].p].awayId,
     scheduledAt |-> req[r].start,
     status |-> "SCHEDULED"]

\* lines 63-69: the data of the fixture to create for the pair p
CreateData(r) ==
    [leagueId |-> req[r].leagueId,
     homeTeamId |-> req[r].pairs[req[r].p].homeId,
     awayTeamId |-> req[r].pairs[req[r].p].awayId,
     scheduledAt |-> req[r].roundDate,
     status |-> "SCHEDULED"]

\* the row INSERT INTO fixtures stores and returns for the data, under a
\* fresh id
FixtureRow(id, data) ==
    [id |-> id,
     leagueId |-> data.leagueId,
     homeTeamId |-> data.homeTeamId,
     awayTeamId |-> data.awayTeamId,
     scheduledAt |-> data.scheduledAt,
     status |-> data.status]

\* PostCreate looking the teams of the pair up again: no fixture is created
\* for a team that has left the league
PostCreateCheckingLeague(r) ==
    /\ req[r].pc = "persist"
    /\ req[r].p <= Len(req[r].pairs)
    /\ LET f == FixtureRow(Len(fixtures) + 1, CreateData(r))
       IN  IF teamLeague[f.homeTeamId] = req[r].leagueId
              /\ teamLeague[f.awayTeamId] = req[r].leagueId
           THEN /\ fixtures' = Append(fixtures, f)
                /\ req' = [req EXCEPT ![r].createdFixtures = Append(@, f),
                                       ![r].calls = Append(@, CreateCall(CreateData(r))),
                                       ![r].p = @ + 1]
           ELSE /\ req' = [req EXCEPT ![r].p = @ + 1]
                /\ UNCHANGED fixtures
    /\ UNCHANGED <<clock, envVars, teamName, teamLeague, clientVars>>

\* PostCreate with createdFixtures an array of the module, shared by the
\* calls that are running: the row is pushed for all of them
PostCreateSharedArray(r) ==
    /\ req[r].pc = "persist"
    /\ req[r].p <= Len(req[r].pairs)
    /\ LET f == FixtureRow(Len(fixtures) + 1, CreateData(r))
       IN  /\ fixtures' = Append(fixtures, f)
           /\ req' = [q \in 1..Len(req) |->
                        IF q = r
                        THEN [req[q] EXCEPT !.createdFixtures = Append(@, f),
                                            !.calls = Append(@, CreateCall(CreateData(r))),
                                            !.p = @ + 1]
                        ELSE IF req[q].pc \in {"loop", "persist"}
                        THEN [req[q] EXCEPT !.createdFixtures = Append(@, f)]
                        ELSE req[q]]
    /\ UNCHANGED <<clock, envVars, teamName, teamLeague, clientVars>>

\* lines 61-72: one prisma.fixture.create and the push of its result
PostCreate(r) ==
    /\ req[r].pc = "persist"
    /\ req[r].p <= Len(req[r].pairs)
    /\ LET f == FixtureRow(Len(fixtures) + 1, CreateData(r))
       IN  /\ fixtures' = Append(fixtures, f)
           /\ req' = [req EXCEPT ![r].createdFixtures = Append(@, f),
                                  ![r].calls = Append(@, CreateCall(CreateData(r))),
                                  ![r].p = @ + 1]
    /\ UNCHANGED <<clock, envVars, teamName, teamLeague, clientVars>>

\* lines 74-76: the rotation at the end of the round, round++
PostRotate(r) ==
    /\ req[r].pc = "persist"
    /\ req[r].p > Len(req[r].pairs)
    /\ req' = [req EXCEPT ![r].pc = "loop",
                          ![r].rotation = SrvRotate(@),
                          ![r].round = @ + 1]
    /\ UNCHANGED <<clock, envVars, dbVars, clientVars>>

\* line 78: return NextResponse.json(createdFixtures)
PostReturn(r) ==
    /\ req[r].pc = "loop"
    /\ ~(req[r].round < req[r].rounds)
    /\ req' = [req EXCEPT ![r].pc = "done", ![r].status = 200,
                          ![r].body = JsonBody(req[r].createdFixtures)]
    /\ UNCHANGED <<clock, envVars, dbVars, clientVars>>

\* the values an awaited call can reject with: an Error with a message, or
\* a value without one
Undefined == "undefined"
ThrownValues == {[message |-> "Can't reach database server"], [message |-> Undefined]}

\* lines 79-82: err?.message ?? 'Server error'
ErrorText(err) == IF err.message = Undefined THEN "Server error" ELSE err.message

\* line 13: req.json() rejects (the body is not JSON); caught at line 79
PostJsonThrows(r) ==
    /\ req[r].pc = "start"
    /\ \E err \in ThrownValues :
          req' = [req EXCEPT ![r].pc = "done", ![r].status = 500,
                             ![r].body = TextBody(ErrorText(err))]
    /\ UNCHANGED <<clock, envVars, dbVars, clientVars>>

\* lines 17-21: prisma.team.findMany rejects; caught at line 79
PostFindManyThrows(r) ==
    /\ req[r].pc = "start"
    /\ req[r].leagueId # MissingLeagueId
    /\ \E err \in ThrownValues :
          req' = [req EXCEPT ![r].pc = "done", ![r].status = 500,
                             ![r].calls = Append(@, FindManyCall(req[r].leagueId)),
                             ![r].body = TextBody(ErrorText(err))]
    /\ UNCHANGED <<clock, envVars, dbVars, clientVars>>

\* PostCreateThrows with the fixtures the call has created rolled back, as
\* if the loop ran in a transaction
PostCreateThrowsRollback(r) ==
    /\ req[r].pc = "persist"
    /\ req[r].p <= Len(req[r].pairs)
    /\ \E err \in ThrownValues :
          req' = [req EXCEPT ![r].pc = "done", ![r].status = 500,
                             ![r].calls = Append(@, CreateCall(CreateData(r))),
                             ![r].body = TextBody(ErrorText(err))]
    /\ fixtures' = SelectSeq(fixtures, LAMBDA f :
                        \A i \in 1..Len(req[r].createdFixtures) :
                            req[r].createdFixtures[i] # f)
    /\ UNCHANGED <<clock, envVars, teamName, teamLeague, clientVars>>

\* lines 62-70: prisma.fixture.create rejects, no row is stored; caught at
\* line 79
PostCreateThrows(r) ==
    /\ req[r].pc = "persist"
    /\ req[r].p <= Len(req[r].pairs)
    /\ \E err \in ThrownValues :
          req' = [req EXCEPT ![r].pc = "done", ![r].status = 500,
                             ![r].calls = Append(@, CreateCall(CreateData(r))),
                             ![r].body = TextBody(ErrorText(err))]
    /\ UNCHANGED <<clock, envVars, dbVars, clientVars>>

----------------------------------------------------------------------------
(* POST and DELETE /api/leagues/{leagueId}/teams                            *)
(* (apps/admin/app/api/leagues/[leagueId]/teams/route.ts)                   *)

\* the teamId of a request body that has none
MissingTeamId == ""

\* the frame of a call: the method, params.leagueId, the teamId of the
\* body, and the response
NewMove(method, leagueId, teamId) ==
    [method |-> method, leagueId |-> leagueId, teamId |-> teamId,
     pc |-> "start", status |-> 0, body |-> NoBody]

\* prisma.team.update({ where: { id: teamId }, data: { leagueId } })
TeamUpdate(leagues, teamId, leagueId) == [leagues EXCEPT ![teamId] = leagueId]

\* lines 7-19: POST assigns the team to the league of the path
TeamsPost(m) ==
    /\ moves[m].pc = "start"
    /\ moves[m].method = "POST"
    /\ IF moves[m].teamId = MissingTeamId
       THEN /\ moves' = [moves EXCEPT ![m].pc = "done", ![m].status = 400,
                                       ![m].body = TextBody("Missing teamId")]
            /\ UNCHANGED teamLeague
       ELSE /\ teamLeague' = TeamUpdate(teamLeague, moves[m].teamId, moves[m].leagueId)
            /\ moves' = [moves EXCEPT ![m].pc = "done", ![m].status = 200,
                                       ![m].body = JsonBody([ok |-> TRUE])]
    /\ UNCHANGED <<clock, serverTZ, clientTZ, vendorVars, dragDrop, drags, lists,
                   teamName, fixtures, req, clientVars>>

\* lines 26-37: DELETE sets the league of the team to null
TeamsDelete(m) ==
    /\ moves[m].pc = "start"
    /\ moves[m].method = "DELETE"
    /\ IF moves[m].teamId = MissingTeamId
       THEN /\ moves' = [moves EXCEPT ![m].pc = "done", ![m].status = 400,
                                       ![m].body = TextBody("Missing teamId")]
            /\ UNCHANGED teamLeague
       ELSE /\ teamLeague' = TeamUpdate(teamLeague, moves[m].teamId, NoLeague)
            /\ moves' = [moves EXCEPT ![m].pc = "done", ![m].status = 200,
                                       ![m].body = JsonBody([ok |-> TRUE])]
    /\ UNCHANGED <<clock, serverTZ, clientTZ, vendorVars, dragDrop, drags, lists,
                   teamName, fixtures, req, clientVars>>

\* lines 20-23, 38-41: req.json() or prisma.team.update rejects (the body is
\* not JSON, the database is not reached, the row is not stored); nothing
\* is written
TeamsThrows(m) ==
    /\ moves[m].pc = "start"
    /\ \E err \in ThrownValues :
          moves' = [moves EXCEPT ![m].pc = "done", ![m].status = 500,
                                 ![m].body = TextBody(ErrorText(err))]
    /\ UNCHANGED <<clock, serverTZ, clientTZ, vendorVars, dragDrop, drags, lists,
                   dbVars, req, clientVars>>

----------------------------------------------------------------------------
(* TeamDragDrop (components/TeamDragDrop.tsx) *)

\* the state of the component before it is mounted
Unmounted == [unassigned |-> <<>>, leagueTeams |-> <<>>, loading |-> FALSE, error |-> "null"]

\* a response that has not arrived
Pending == [pending |-> TRUE, data |-> <<>>]
Arrived(data) == [pending |-> FALSE, data |-> data]

\* fetchLists up to its await (lines 143-149): setLoading(true),
\* setError(null), and the two GET requests sent
FetchListsStart(state) == [state EXCEPT !.loading = TRUE, !.error = "null"]
NewLists == [uRes |-> Pending, lRes |-> Pending, pc |-> "await"]

\* the server answers GET /api/teams?unassigned=true of a call of
\* fetchLists: the teams without a league, as the table holds them then
GetUnassigned(f) ==
    /\ lists[f].pc = "await"
    /\ lists[f].uRes.pending
    /\ \E ts \in FindManyTeams(teamName, teamLeague, NoLeague) :
          lists' = [lists EXCEPT ![f].uRes = Arrived(ts)]
    /\ UNCHANGED <<clock, serverTZ, clientTZ, vendorVars, moves, dragDrop, drags,
                   dbVars, req, clientVars>>

\* the server answers GET /api/teams?leagueId=... of a call of fetchLists
GetLeagueTeams(f) ==
    /\ lists[f].pc = "await"
    /\ lists[f].lRes.pending
    /\ \E ts \in FindManyTeams(teamName, teamLeague, LeagueId) :
          lists' = [lists EXCEPT ![f].lRes = Arrived(ts)]
    /\ UNCHANGED <<clock, serverTZ, clientTZ, vendorVars, moves, dragDrop, drags,
                   dbVars, req, clientVars>>

\* fetchLists after its await (lines 150-158): both responses have arrived,
\* the two lists are set, loading is reset
FetchListsDone(f) ==
    /\ lists[f].pc = "await"
    /\ ~lists[f].uRes.pending /\ ~lists[f].lRes.pending
    /\ dragDrop' = [dragDrop EXCEPT !.unassigned = lists[f].uRes.data,
                                    !.leagueTeams = lists[f].lRes.data,
                                    !.loading = FALSE]
    /\ lists' = [lists EXCEPT ![f].pc = "done"]
    /\ UNCHANGED <<clock, serverTZ, clientTZ, vendorVars, moves, drags,
                   dbVars, req, clientVars>>

\* items.splice(index, 1): the array without the element at index
SpliceOut(items, index) ==
    [i \in 1..(Len(items) - 1) |-> IF i <= index THEN items[i] ELSE items[i + 1]]

\* copy.splice(index, 0, moved): the array with moved inserted at index, or
\* at the end when index is beyond it
SpliceIn(items, index, moved) ==
    LET k == IF index > Len(items) THEN Len(items) ELSE index
    IN  SubSeq(items, 1, k) \o <<moved>> \o SubSeq(items, k + 1, Len(items))

\* prev.filter((t) => t.id !== draggableId)
FilterOut(prev, draggableId) == SelectSeq(prev, LAMBDA t : t.id # draggableId)

\* list.find((t) => t.id === draggableId): the matches, of which find
\* returns the first, or undefined when there is none
Find(list, draggableId) == SelectSeq(list, LAMBDA t : t.id = draggableId)

\* the list of a droppable, in a state of the component
ListOf(state, droppableId) ==
    IF droppableId = "unassigned" THEN state.unassigned ELSE state.leagueTeams

\* the other droppable
Other(droppableId) == IF droppableId = "unassigned" THEN "league" ELSE "unassigned"

\* onDragEnd, a drop in the list the drag started from (lines 171-184): the
\* team is taken out at source.index and put in at destination.index
OnDragEndReorder ==
    /\ \E source \in {"unassigned", "league"} :
       \E from \in 0..(Len(ListOf(dragDrop, source)) - 1),
          to \in 0..(Len(ListOf(dragDrop, source)) - 1) :
          LET items == ListOf(dragDrop, source)
              moved == items[from + 1]
              reordered == SpliceIn(SpliceOut(items, from), to, moved)
          IN  /\ to # from
              /\ dragDrop' = IF source = "unassigned"
                             THEN [dragDrop EXCEPT !.unassigned = reordered]
                             ELSE [dragDrop EXCEPT !.leagueTeams = reordered]
    /\ UNCHANGED <<clock, serverTZ, clientTZ, vendorVars, moves, drags, lists,
                   dbVars, req, clientVars>>

\* onDragEnd up to its await, a drop in the other list (lines 186-194,
\* 206-212): POST or DELETE /api/leagues/{leagueId}/teams is sent with the
\* id of the team dragged; the call keeps the lists of the render it
\* belongs to
OnDragEndMove ==
    /\ Len(drags) < MaxDrags
    /\ \E source \in {"unassigned", "league"} :
       \E from \in 0..(Len(ListOf(dragDrop, source)) - 1),
          to \in 0..Len(ListOf(dragDrop, Other(source))) :
          LET draggableId == ListOf(dragDrop, source)[from + 1].id
          IN  /\ moves' = Append(moves,
                              NewMove(IF source = "unassigned" THEN "POST" ELSE "DELETE",
                                      LeagueId, draggableId))
              /\ drags' = Append(drags,
                              [draggableId |-> draggableId, source |-> source,
                               index |-> to,
                               unassigned |-> dragDrop.unassigned,
                               leagueTeams |-> dragDrop.leagueTeams,
                               move |-> Len(moves) + 1, pc |-> "await"])
    /\ UNCHANGED <<clock, serverTZ, clientTZ, vendorVars, dragDrop, lists,
                   dbVars, req, clientVars>>

\* onDragEnd after its await, the response is ok (lines 195-205, 213-224):
\* when the team is found in the list of the render of the call, it is
\* filtered out of the list it came from and put into the other one, as
\* these lists are now
OnDragEndOk(d) ==
    /\ drags[d].pc = "await"
    /\ moves[drags[d].move].pc = "done"
    /\ moves[drags[d].move].status = 200
    /\ LET id == drags[d].draggableId
           found == Find(ListOf(drags[d], drags[d].source), id)
       IN  dragDrop' =
             IF found = <<>> THEN dragDrop
             ELSE IF drags[d].source = "unassigned"
             THEN [dragDrop EXCEPT
                      !.unassigned = FilterOut(@, id),
                      !.leagueTeams = SpliceIn(@, drags[d].index, found[1])]
             ELSE [dragDrop EXCEPT
                      !.leagueTeams = FilterOut(@, id),
                      !.unassigned = SpliceIn(@, drags[d].index, found[1])]
    /\ drags' = [drags EXCEPT ![d].pc = "done"]
    /\ UNCHANGED <<clock, serverTZ, clientTZ, vendorVars, moves, lists,
                   dbVars, req, clientVars>>

\* onDragEnd after its await, the response is not ok (lines 195, 213,
\* 225-230): setError(the text of the response), then fetchLists(), which
\* resets the error and loads the lists again
OnDragEndFailed(d) ==
    /\ drags[d].pc = "await"
    /\ moves[drags[d].move].pc = "done"
    /\ moves[drags[d].move].status # 200
    /\ dragDrop' = FetchListsStart([dragDrop EXCEPT !.error = moves[drags[d].move].body.text])
    /\ lists' = Append(lists, NewLists)
    /\ drags' = [drags EXCEPT ![d].pc = "done"]
    /\ UNCHANGED <<clock, serverTZ, clientTZ, vendorVars, moves, dbVars, req, clientVars>>

----------------------------------------------------------------------------
(* FixtureGenerator: generateRoundRobinPreview *)

\* const daysUntilSat = ((6 - now.getDay()) + 7) % 7 || 7
PreviewDaysUntilSat(tz, now) ==
    LET d == ((6 - GetDay(tz, now)) + 7) % 7 IN IF d = 0 THEN 7 ELSE d

\* start date: next Saturday at 10:00 local time
PreviewStart(tz, now) ==
    SetHours(tz, SetDate(tz, now, GetDate(tz, now) + PreviewDaysUntilSat(tz, now)), 10, 0, 0, 0)

\* roundDate = new Date(start); roundDate.setDate(start.getDate() + round * 7)
PreviewRoundDate(tz, start, round) == SetDate(tz, start, GetDate(tz, start) + round * 7)

\* items = [...teams], and the BYE entry pushed when their number is odd
PreviewItems(ts) == IF Len(ts) % 2 = 1 THEN Append(ts, [id |-> BYE, name |-> "BYE"]) ELSE ts

RECURSIVE PreviewMatches(_, _, _, _, _)
\* the entries one round pushes: for (let i = 0; i < half; i++)
PreviewMatches(rotation, n, i, round, roundDate) ==
    IF ~(2 * i < n) THEN <<>>
    ELSE LET t1 == rotation[i + 1]
             t2 == rotation[n - 1 - i + 1]
         IN  IF t1.id = BYE \/ t2.id = BYE
             THEN PreviewMatches(rotation, n, i + 1, round, roundDate)
             ELSE <<[round |-> round + 1, home |-> t1, away |-> t2,
                     scheduledAt |-> ToISOString(roundDate)]>>
                  \o PreviewMatches(rotation, n, i + 1, round, roundDate)

\* rotation = [rotation[0], ...rotation.slice(1).slice(-1), ...rotation.slice(1, -1)]
PreviewRotate(rotation) ==
    <<rotation[1]>> \o SliceFrom(SliceFrom(rotation, 1), -1) \o Slice(rotation, 1, -1)

RECURSIVE PreviewRounds(_, _, _, _, _, _)
\* for (let round = 0; round < rounds; round++) { ... }
PreviewRounds(tz, start, rotation, n, rounds, round) ==
    IF ~(round < rounds) THEN <<>>
    ELSE PreviewMatches(rotation, n, 0, round, PreviewRoundDate(tz, start, round))
         \o PreviewRounds(tz, start, PreviewRotate(rotation), n, rounds, round + 1)

\* generateRoundRobinPreview(teams), run in time zone tz when the clock reads now
generateRoundRobinPreview(tz, now, ts) ==
    IF Len(ts) < 2 THEN <<>>
    ELSE LET items == PreviewItems(ts)
             n == Len(items)
         IN  PreviewRounds(tz, PreviewStart(tz, now), SliceFrom(items, 0), n, n - 1, 0)

----------------------------------------------------------------------------
(* FixtureGenerator: the component *)

\* fetchTeams resolves: GET /api/teams?leagueId=... answers with the teams
\* of the league, setTeams stores them, and the effect on [teams] computes
\* the preview
FetchTeamsDone(instants) ==
    /\ fetching > 0
    /\ \E ts \in FindManyTeams(teamName, teamLeague, LeagueId), now \in instants :
          /\ NotAfter(clock, now)
          /\ clock' = now
          /\ teams' = ts
          /\ preview' = generateRoundRobinPreview(clientTZ, now, ts)
    /\ fetching' = fetching - 1
    /\ loading' = FALSE
    /\ UNCHANGED <<envVars, dbVars, req, generating, inflight, error>>

\* handleGenerate up to its await: the button is enabled, the POST is sent
HandleGenerate ==
    /\ ~generating
    /\ Len(teams) >= 2
    /\ Len(req) < MaxRequests
    /\ generating' = TRUE
    /\ error' = "null"
    /\ req' = Append(req, NewFrame(LeagueId))
    /\ inflight' = Len(req) + 1
    /\ UNCHANGED <<clock, envVars, dbVars, teams, preview, loading, fetching>>

\* handleGenerate after its await: the response has arrived
HandleResponse ==
    /\ inflight # 0
    /\ req[inflight].pc = "done"
    /\ IF req[inflight].status = 200
       THEN /\ loading' = TRUE
            /\ fetching' = fetching + 1
            /\ error' = "null"
       ELSE /\ error' = req[inflight].body.text
            /\ UNCHANGED <<loading, fetching>>
    /\ generating' = FALSE
    /\ inflight' = 0
    /\ UNCHANGED <<clock, envVars, dbVars, req, teams, preview>>

----------------------------------------------------------------------------
(* Vendor portal: calculateRevenueSplit (packages/vendor/src/revenue.ts).   *)
(* A percentage is held in hundredths (15 for 0.15).  Math.round of the     *)
(* double product cents * 0.15 or cents * 0.1 is the nearest integer of the *)
(* exact product, ties upwards, for every amount below 2,000,000 cents.     *)

\* the defaults of discountPercentage and commissionPercentage
DefaultDiscount == 15
DefaultCommission == 10

\* Math.round with a / b truncated (Math.floor)
MathRoundDown(a, b) == a \div b

\* Math.round(a / b), b > 0: the nearest integer, ties towards +Infinity
MathRound(a, b) == (2 * a + b) \div (2 * b)

\* Math.max
MathMax(a, b) == IF a >= b THEN a ELSE b

\* no call yet
NoSplit == [thrown |-> "none"]

\* throw new Error(message)
ThrowError(message) == [thrown |-> message]

\* Math.round(cents * percentage): cents * percentage / 100 with the
\* percentage in hundredths.  The whole hundreds of cents give a whole
\* number of cents, only the rest is rounded, so that no intermediate value
\* exceeds the amount itself
RoundedShare(cents, percentage) ==
    (cents \div 100) * percentage + MathRound((cents % 100) * percentage, 100)

\* calculateRevenueSplit(totalPriceCents, opts): the RevenueSplit returned,
\* or the error thrown
calculateRevenueSplit(totalPriceCents, opts) ==
    LET isRegisteredPlayer ==
            "isRegisteredPlayer" \in DOMAIN opts /\ opts.isRegisteredPlayer
        discountPercentage ==
            IF "discountPercentage" \in DOMAIN opts THEN opts.discountPercentage
            ELSE DefaultDiscount
        commissionPercentage ==
            IF "commissionPercentage" \in DOMAIN opts THEN opts.commissionPercentage
            ELSE DefaultCommission
        discountAmountCents ==
            IF isRegisteredPlayer THEN RoundedShare(totalPriceCents, discountPercentage)
            ELSE 0
        customerPaysCents == MathMax(0, totalPriceCents - discountAmountCents)
        commissionAmountCents == RoundedShare(customerPaysCents, commissionPercentage)
        vendorPayoutCents == customerPaysCents - commissionAmountCents
    IN  IF totalPriceCents < 0
        THEN ThrowError("totalPriceCents must be a finite non-negative number (in cents).")
        ELSE IF discountPercentage < 0 \/ discountPercentage >= 100
        THEN ThrowError("discountPercentage must be between 0 (inclusive) and 1 (exclusive).")
        ELSE IF commissionPercentage < 0 \/ commissionPercentage >= 100
        THEN ThrowError("commissionPercentage must be between 0 (inclusive) and 1 (exclusive).")
        ELSE [thrown |-> "",
              totalPriceCents |-> totalPriceCents,
              isRegisteredPlayer |-> isRegisteredPlayer,
              discountPercentage |-> discountPercentage,
              discountAmountCents |-> discountAmountCents,
              customerPaysCents |-> customerPaysCents,
              commissionPercentage |-> commissionPercentage,
              commissionAmountCents |-> commissionAmountCents,
              vendorPayoutCents |-> vendorPayoutCents]

\* the prices of the kits: every amount up to MaxPriceCents, the prices of
\* the examples of revenue.ts, and an amount that is refused
Prices == (0 - 1)..MaxPriceCents \cup {1999, 5000}

\* the options of the callers: the buyer is a registered player or not
Options == {[isRegisteredPlayer |-> b] : b \in BOOLEAN}

\* a kit is priced: calculateRevenueSplit(totalPriceCents, opts)
PriceKit ==
    /\ \E totalPriceCents \in Prices, opts \in Options :
          split' = calculateRevenueSplit(totalPriceCents, opts)
    /\ UNCHANGED <<clock, serverTZ, clientTZ, order, assignVars, dbVars, req, clientVars>>

----------------------------------------------------------------------------
(* Table orders (sql/001_init_sesigo_hive.sql): the generated column        *)
(* commission_amount_cents.  The columns are INT, 32-bit signed integers;   *)
(* an INT operation whose result does not fit fails with "integer out of    *)
(* range" and the statement stores nothing.                                 *)

\* the largest value of type INT
Int4Max == 2147483647

\* no INSERT yet
NoOrder == [error |-> "none"]

\* whether the INT sum a + b is out of range (a, b >= 0)
Int4OutOfRange(a, b) == a > Int4Max - b

\* INSERT INTO orders (..., order_total_cents) VALUES (..., total): the row
\* stored, with its generated column, or the error of the statement
InsertOrder(order_total_cents) ==
    IF ~(order_total_cents >= 0)
    THEN [error |-> "violates check constraint", order_total_cents |-> order_total_cents]
    ELSE IF Int4OutOfRange(order_total_cents, 5)
    THEN [error |-> "integer out of range", order_total_cents |-> order_total_cents]
    ELSE [error |-> "",
          order_total_cents |-> order_total_cents,
          commission_amount_cents |-> (order_total_cents + 5) \div 10]

\* the totals of the orders: every amount up to MaxPriceCents, the largest
\* amounts of the column, and an amount the CHECK refuses
OrderTotals == (0 - 1)..MaxPriceCents \cup {Int4Max - k : k \in 0..9}

\* an order is placed
PlaceOrder ==
    /\ \E order_total_cents \in OrderTotals : order' = InsertOrder(order_total_cents)
    /\ UNCHANGED <<clock, serverTZ, clientTZ, split, assignVars, dbVars, req, clientVars>>

----------------------------------------------------------------------------
(* The system *)

Init ==
    /\ clock = October(1, 0, 0, 0)
    /\ serverTZ \in TimeZones
    /\ clientTZ \in TimeZones
    /\ \E k \in 0..MaxTeams :
          /\ teamLeague = [id \in TeamIds |->
                              IF \E i \in 1..k : AllIds[i] = id THEN LeagueId ELSE NoLeague]
          /\ \/ teamName = [id \in TeamIds |-> DistinctNames(id)]
             \/ k = 2 /\ teamName = [id \in TeamIds |-> SharedName(id)]
    /\ fixtures = <<>>
    /\ req = <<>>
    /\ teams = <<>>
    /\ preview = <<>>
    /\ loading = TRUE
    /\ fetching = 1
    /\ generating = FALSE
    /\ inflight = 0
    /\ error = "null"
    /\ split = NoSplit
    /\ order = NoOrder
    /\ moves = <<>>
    /\ dragDrop = Unmounted
    /\ drags = <<>>
    /\ lists = <<>>

\* a step of a call of POST /api/fixtures/generate
PostStep(instants) ==
    \E r \in 1..Len(req) :
        \/ PostLoadTeams(r)
        \/ PostBuild(r, instants)
        \/ PostRound(r)
        \/ PostCreate(r)
        \/ PostRotate(r)
        \/ PostReturn(r)

\* a session of the admin page: the teams are fetched, fixtures are
\* generated, the teams are fetched again, ...
Next ==
    \/ FetchTeamsDone(SessionInstants)
    \/ HandleGenerate
    \/ HandleResponse
    \/ PostStep(SessionInstants)

Spec == Init /\ [][Next]_vars

\* the session, with the event loop of the server resuming every call
\* whose await has resolved
FairSpec == Spec /\ WF_vars(PostStep(SessionInstants))

\* one generation, up to the return of the handler, started at any instant
\* of a week
NextDate ==
    \/ FetchTeamsDone(WeekInstants)
    \/ HandleGenerate
    \/ PostStep(WeekInstants)

DateSpec == Init /\ [][NextDate]_vars

\* the handler called by clients of the API while the page loads the teams
\* of its league: the teams are spread over two leagues
ApiInit ==
    /\ clock = October(1, 0, 0, 0)
    /\ serverTZ \in TimeZones
    /\ clientTZ = UTCZone
    /\ \E k \in 0..MaxTeams :
          teamLeague = [id \in TeamIds |->
                           IF \E i \in 1..k : AllIds[i] = id THEN LeagueId
                           ELSE OtherLeagueId]
    /\ teamName = [id \in TeamIds |-> DistinctNames(id)]
    /\ fixtures = <<>>
    /\ req = <<>>
    /\ teams = <<>>
    /\ preview = <<>>
    /\ loading = TRUE
    /\ fetching = 1
    /\ generating = FALSE
    /\ inflight = 0
    /\ error = "null"
    /\ split = NoSplit
    /\ order = NoOrder
    /\ moves = <<>>
    /\ dragDrop = Unmounted
    /\ drags = <<>>
    /\ lists = <<>>

\* the leagueId of the bodies the clients of the API send
ApiLeagues == <<LeagueId, OtherLeagueId, MissingLeagueId>>

\* a client sends POST /api/fixtures/generate with a body { leagueId }, or
\* with a body without leagueId.  The calls are for different leagues; they
\* arrive in the order of ApiLeagues, and run in any order from there on
ApiPost ==
    /\ Len(req) < MaxRequests
    /\ \E i \in 1..Len(ApiLeagues) :
          /\ \A r \in 1..Len(req) : \E j \in 1..(i - 1) : req[r].leagueId = ApiLeagues[j]
          /\ req' = Append(req, NewFrame(ApiLeagues[i]))
    /\ UNCHANGED <<clock, envVars, dbVars, clientVars>>

\* an awaited call of a handler rejects
PostThrow ==
    \E r \in 1..Len(req) :
        \/ PostJsonThrows(r)
        \/ PostFindManyThrows(r)
        \/ PostCreateThrows(r)

\* the instant the clock is read at by the calls of the API
ApiInstants == {October(24, 0, 30, 0)}

NextApi ==
    \/ FetchTeamsDone(ApiInstants)
    \/ ApiPost
    \/ PostStep(ApiInstants)
    \/ PostThrow

ApiSpec == ApiInit /\ [][NextApi]_vars

\* the league while its fixtures are generated: the first teams are in the
\* league, the others in none
RosterInit ==
    /\ clock = October(1, 0, 0, 0)
    /\ serverTZ = UTCZone
    /\ clientTZ = UTCZone
    /\ \E k \in 0..MaxTeams :
          teamLeague = [id \in TeamIds |->
                           IF \E i \in 1..k : AllIds[i] = id THEN LeagueId ELSE NoLeague]
    /\ teamName = [id \in TeamIds |-> DistinctNames(id)]
    /\ fixtures = <<>>
    /\ req = <<>>
    /\ teams = <<>>
    /\ preview = <<>>
    /\ loading = FALSE
    /\ fetching = 0
    /\ generating = FALSE
    /\ inflight = 0
    /\ error = "null"
    /\ split = NoSplit
    /\ order = NoOrder
    /\ moves = <<>>
    /\ dragDrop = Unmounted
    /\ drags = <<>>
    /\ lists = <<>>

\* a call of the handler is between two awaits: its code runs on the one
\* thread of the runtime, which runs nothing else until the call reaches its
\* next await (of prisma.team.findMany, of prisma.fixture.create) or returns
Running(r) ==
    \/ req[r].pc \in {"build", "loop"}
    \/ req[r].pc = "persist" /\ req[r].p > Len(req[r].pairs)

\* the thread of the runtime is free
Idle == \A r \in 1..Len(req) : ~Running(r)

\* a client sends POST /api/fixtures/generate { leagueId } for the league,
\* whether or not an earlier call for it is still running.  The calls are
\* alike: they are numbered in the order in which they read the roster
ApiPostLeague ==
    /\ Idle
    /\ Len(req) < MaxRequests
    /\ \A r \in 1..Len(req) : req[r].pc # "start"
    /\ req' = Append(req, NewFrame(LeagueId))
    /\ UNCHANGED <<clock, envVars, dbVars, clientVars>>

\* the requests of the clients: the first of the ids is unassigned, the
\* last of the ids is assigned
ApiMoves == {[method |-> "DELETE", teamId |-> AllIds[1]],
             [method |-> "POST", teamId |-> AllIds[MaxTeams]]}

\* a client sends POST or DELETE /api/leagues/{leagueId}/teams { teamId },
\* once its earlier request is answered
ApiMove ==
    /\ Idle
    /\ Len(moves) < MaxMoves
    /\ \A m \in 1..Len(moves) : moves[m].pc = "done"
    /\ \E move \in ApiMoves :
          moves' = Append(moves, NewMove(move.method, LeagueId, move.teamId))
    /\ UNCHANGED <<clock, serverTZ, clientTZ, vendorVars, dragDrop, drags, lists,
                   dbVars, req, clientVars>>

\* a call of the handlers of /api/leagues/{leagueId}/teams runs
TeamsStep ==
    /\ Idle
    /\ \E m \in 1..Len(moves) : TeamsPost(m) \/ TeamsDelete(m)

\* a step of a call of POST /api/fixtures/generate: of the call that is
\* running, or of any call when the thread is free and the table fixtures
\* has room
PostStepInTurn ==
    /\ \E r \in 1..Len(req) :
          /\ Idle \/ Running(r)
          /\ \/ PostLoadTeams(r)
             \/ PostBuild(r, ApiInstants)
             \/ PostRound(r)
             \/ PostCreate(r)
             \/ PostRotate(r)
             \/ PostReturn(r)
    /\ Len(fixtures') <= MaxFixtures

NextRoster ==
    \/ ApiPostLeague
    \/ PostStepInTurn
    \/ ApiMove
    \/ TeamsStep

RosterSpec == RosterInit /\ [][NextRoster]_vars

\* TeamDragDrop is mounted for the league: one team is in the league, one
\* is in none, the others in another league; fetchLists has been called
DragInit ==
    /\ clock = October(1, 0, 0, 0)
    /\ serverTZ = UTCZone
    /\ clientTZ = UTCZone
    /\ teamLeague = [id \in TeamIds |->
                        IF id = AllIds[1] THEN LeagueId
                        ELSE IF id = AllIds[2] THEN NoLeague
                        ELSE OtherLeagueId]
    /\ teamName = [id \in TeamIds |-> DistinctNames(id)]
    /\ fixtures = <<>>
    /\ req = <<>>
    /\ teams = <<>>
    /\ preview = <<>>
    /\ loading = FALSE
    /\ fetching = 0
    /\ generating = FALSE
    /\ inflight = 0
    /\ error = "null"
    /\ split = NoSplit
    /\ order = NoOrder
    /\ moves = <<>>
    /\ dragDrop = FetchListsStart(Unmounted)
    /\ drags = <<>>
    /\ lists = <<NewLists>>

\* a call of fetchLists goes on
ListsStep ==
    \E f \in 1..Len(lists) : GetUnassigned(f) \/ GetLeagueTeams(f) \/ FetchListsDone(f)

\* a call of the handlers of /api/leagues/{leagueId}/teams runs or rejects
MoveStep ==
    \E m \in 1..Len(moves) : TeamsPost(m) \/ TeamsDelete(m) \/ TeamsThrows(m)

\* a call of onDragEnd resumes with the response
DragResponse ==
    \E d \in 1..Len(drags) : OnDragEndOk(d) \/ OnDragEndFailed(d)

NextDrag ==
    \/ ListsStep
    \/ OnDragEndReorder
    \/ OnDragEndMove
    \/ MoveStep
    \/ DragResponse

DragSpec == DragInit /\ [][NextDrag]_vars

\* the vendor portal on its own: no league, no page, no call
RevenueInit ==
    /\ clock = October(1, 0, 0, 0)
    /\ serverTZ = UTCZone
    /\ clientTZ = UTCZone
    /\ teamLeague = [id \in TeamIds |-> NoLeague]
    /\ teamName = [id \in TeamIds |-> DistinctNames(id)]
    /\ fixtures = <<>>
    /\ req = <<>>
    /\ teams = <<>>
    /\ preview = <<>>
    /\ loading = FALSE
    /\ fetching = 0
    /\ generating = FALSE
    /\ inflight = 0
    /\ error = "null"
    /\ split = NoSplit
    /\ order = NoOrder
    /\ moves = <<>>
    /\ dragDrop = Unmounted
    /\ drags = <<>>
    /\ lists = <<>>

NextRevenue == PriceKit

RevenueSpec == RevenueInit /\ [][NextRevenue]_vars

\* the orders placed, on their own
NextOrder == PlaceOrder

OrderSpec == RevenueInit /\ [][NextOrder]_vars

----------------------------------------------------------------------------
(* What the generator emits *)

\* the calls that have answered 200
Succeeded == {r \in 1..Len(req) : req[r].pc = "done" /\ req[r].status = 200}

\* the ids of a sequence of teams
IdsOf(ts) == {ts[i].id : i \in 1..Len(ts)}

\* the unordered pairs of distinct elements of S
UnorderedPairs(S) == {P \in SUBSET S : Cardinality(P) = 2}

\* the matchups of fixture rows, and of preview entries, as home/away ids
RowMatchups(rows) ==
    [i \in 1..Len(rows) |-> [home |-> rows[i].homeTeamId, away |-> rows[i].awayTeamId]]
EntryMatchups(entries) ==
    [i \in 1..Len(entries) |-> [home |-> entries[i].home.id, away |-> entries[i].away.id]]
PairMatchups(pairs) ==
    [i \in 1..Len(pairs) |-> [home |-> pairs[i].homeId, away |-> pairs[i].awayId]]

\* the matchups m hold every unordered pair of the ids S exactly once
EveryPairOnce(m, S) ==
    /\ 2 * Len(m) = Cardinality(S) * (Cardinality(S) - 1)
    /\ \A P \in UnorderedPairs(S) :
          Cardinality({i \in 1..Len(m) : {m[i].home, m[i].away} = P}) = 1

\* C1: completeness.  When a call of the handler has answered 200, the
\* fixtures it created hold every unordered pair of the teams it loaded
\* exactly once, n(n-1)/2 fixtures in all; and the preview of a roster of
\* at least 2 teams holds every unordered pair of the roster exactly once.
C1_Completeness ==
    /\ \A r \in Succeeded :
          EveryPairOnce(RowMatchups(req[r].createdFixtures), IdsOf(req[r].teams))
    /\ Len(teams) >= 2 => EveryPairOnce(EntryMatchups(preview), IdsOf(teams))

\* a call for an odd roster of 5 teams has answered with its 10 fixtures,
\* and the preview of the 5 teams is on display
C1_Witness ==
    /\ \E r \in Succeeded :
          Len(req[r].teams) = 5 /\ Len(req[r].createdFixtures) = 10
    /\ Len(teams) = 5 /\ Len(preview) = 10

\* no id occurs in two matchups of m that belong to the same round, where
\* round[i] tells the round of m[i]
OncePerRound(m, round) ==
    \A i, j \in 1..Len(m) :
        (i < j /\ round[i] = round[j]) =>
            {m[i].home, m[i].away} \cap {m[j].home, m[j].away} = {}

\* C2: per-round exclusivity.  No team id occurs in more than one matchup
\* of a round: among the pairs the handler has computed for a round, among
\* the fixtures it has created with the same round date, and among the
\* preview entries of the same round number.
C2_PerRoundExclusivity ==
    /\ \A r \in 1..Len(req) :
          /\ OncePerRound(PairMatchups(req[r].pairs), [i \in 1..Len(req[r].pairs) |-> 0])
          /\ OncePerRound(RowMatchups(req[r].createdFixtures),
                          [i \in 1..Len(req[r].createdFixtures) |->
                              req[r].createdFixtures[i].scheduledAt])
    /\ OncePerRound(EntryMatchups(preview), [i \in 1..Len(preview) |-> preview[i].round])

\* a call is persisting a round of two pairs, after an earlier round, and
\* the preview shows rounds of two matchups
C2_Witness ==
    /\ \E r \in 1..Len(req) :
          req[r].pc = "persist" /\ Len(req[r].pairs) = 2 /\ req[r].round = 1 /\ req[r].p = 3
    /\ \E i \in 1..Len(preview) : i > 1 /\ preview[i].round = preview[i - 1].round

\* C3: no bye leakage.  The id BYE is neither home nor away in any pair
\* the handler computes, in any fixture it passes to prisma.fixture.create
\* (the rows of the table, the fixtures it answers with), or in any entry
\* of the preview.
C3_NoByeLeakage ==
    /\ \A i \in 1..Len(fixtures) :
          fixtures[i].homeTeamId # BYE /\ fixtures[i].awayTeamId # BYE
    /\ \A r \in 1..Len(req) :
          /\ \A i \in 1..Len(req[r].pairs) :
                req[r].pairs[i].homeId # BYE /\ req[r].pairs[i].awayId # BYE
          /\ \A i \in 1..Len(req[r].createdFixtures) :
                /\ req[r].createdFixtures[i].homeTeamId # BYE
                /\ req[r].createdFixtures[i].awayTeamId # BYE
    /\ \A i \in 1..Len(preview) : preview[i].home.id # BYE /\ preview[i].away.id # BYE

\* a call for an odd roster, whose rotation holds the BYE entry, has
\* answered 200, and the preview of the odd roster is on display
C3_Witness ==
    /\ \E r \in Succeeded :
          /\ Len(req[r].teams) = 3
          /\ \E i \in 1..Len(req[r].rotation) : req[r].rotation[i].id = BYE
          /\ Len(req[r].createdFixtures) = 3
    /\ Len(teams) = 3 /\ Len(preview) = 3

\* call r has been started / has answered
Started(r) == Len(req) >= r
Answered(r) == Len(req) >= r /\ req[r].pc = "done"

\* the number of rounds of a roster of n teams
RoundsOf(n) == IF n % 2 = 0 THEN n - 1 ELSE n

\* C4: round count.  A call that has answered 200 for n teams has run
\* n-1 rounds when n is even and n rounds when n is odd, and its fixtures
\* carry as many round dates; the preview of n >= 2 teams holds exactly the
\* rounds 1..n-1 (n even) or 1..n (n odd); and every call that was started
\* answers in the end.
C4_RoundCount ==
    /\ [](\A r \in Succeeded :
            /\ req[r].round = RoundsOf(Len(req[r].teams))
            /\ Cardinality({req[r].createdFixtures[i].scheduledAt :
                                i \in 1..Len(req[r].createdFixtures)})
                 = RoundsOf(Len(req[r].teams)))
    /\ [](Len(teams) >= 2 =>
            {preview[i].round : i \in 1..Len(preview)} = 1..RoundsOf(Len(teams)))
    /\ \A r \in 1..MaxRequests : (Started(r) ~> Answered(r))

\* calls for an odd roster of 5 teams and the preview of the roster: both
\* calls of the session have answered, 5 rounds each
C4_Witness ==
    /\ Len(req) = 2
    /\ \A r \in 1..2 : r \in Succeeded /\ req[r].round = 5 /\ Len(req[r].teams) = 5
    /\ Len(teams) = 5 /\ preview[Len(preview)].round = 5

\* the ids that play in the matchups m
PlayersOf(m) == UNION {{m[i].home, m[i].away} : i \in 1..Len(m)}

\* m is a full round of the ids S: floor(|S|/2) matchups, among the ids of
\* S, in which every id plays when |S| is even and all but one when odd
FullRound(m, S) ==
    /\ Len(m) = Cardinality(S) \div 2
    /\ PlayersOf(m) \subseteq S
    /\ Cardinality(S \ PlayersOf(m)) = Cardinality(S) % 2

\* the fixture rows dated d, and the preview entries of round k
RowsOn(rows, d) == SelectSeq(rows, LAMBDA x : x.scheduledAt = d)
EntriesOf(entries, k) == SelectSeq(entries, LAMBDA x : x.round = k)

\* C5: matchups per round.  Every round holds exactly floor(n/2) matchups;
\* every team plays in it when n is even, and exactly one team has no
\* matchup in it when n is odd: for the pairs the handler persists in a
\* round, for the fixtures of each round date of a call that answered 200,
\* and for the entries of each round of the preview.
C5_MatchupsPerRound ==
    /\ \A r \in 1..Len(req) :
          req[r].pc = "persist" =>
              FullRound(PairMatchups(req[r].pairs), IdsOf(req[r].teams))
    /\ \A r \in Succeeded :
          \A i \in 1..Len(req[r].createdFixtures) :
              FullRound(RowMatchups(RowsOn(req[r].createdFixtures,
                                           req[r].createdFixtures[i].scheduledAt)),
                        IdsOf(req[r].teams))
    /\ Len(teams) >= 2 =>
          \A k \in 1..RoundsOf(Len(teams)) :
              FullRound(EntryMatchups(EntriesOf(preview, k)), IdsOf(teams))

\* after a first call for the odd roster of 5 teams has answered, a second
\* one is persisting a round of 2 pairs in which one team sits out, and the
\* preview of the 5 teams is on display
C5_Witness ==
    /\ Len(req) = 2 /\ 1 \in Succeeded
    /\ req[2].pc = "persist" /\ Len(req[2].teams) = 5 /\ Len(req[2].pairs) = 2
    /\ Len(teams) = 5 /\ Len(EntriesOf(preview, 5)) = 2

\* C6: home differs from away.  In every pair the handler computes, every
\* fixture it passes to prisma.fixture.create (the rows of the table, the
\* fixtures it answers with) and every entry of the preview, the home team
\* is not the away team.
C6_HomeNotAway ==
    /\ \A i \in 1..Len(fixtures) : fixtures[i].homeTeamId # fixtures[i].awayTeamId
    /\ \A r \in 1..Len(req) :
          /\ \A i \in 1..Len(req[r].pairs) : req[r].pairs[i].homeId # req[r].pairs[i].awayId
          /\ \A i \in 1..Len(req[r].createdFixtures) :
                req[r].createdFixtures[i].homeTeamId # req[r].createdFixtures[i].awayTeamId
    /\ \A i \in 1..Len(preview) : preview[i].home.id # preview[i].away.id

\* the table holds the 6 fixtures of a call for 4 teams that answered 200,
\* and the preview of the 4 teams is on display
C6_Witness ==
    /\ Len(fixtures) = 6
    /\ \E r \in Succeeded : Len(req[r].teams) = 4 /\ Len(req[r].createdFixtures) = 6
    /\ Len(teams) = 4 /\ Len(preview) = 6

\* the schedule of fixture rows, and of preview entries: home id, away id
\* and round date as the ISO string of the instant, in order
RowSchedule(rows) ==
    [i \in 1..Len(rows) |-> [home |-> rows[i].homeTeamId,
                             away |-> rows[i].awayTeamId,
                             date |-> ToISOString(rows[i].scheduledAt)]]
EntrySchedule(entries) ==
    [i \in 1..Len(entries) |-> [home |-> entries[i].home.id,
                                away |-> entries[i].away.id,
                                date |-> entries[i].scheduledAt]]

\* C7: preview/persist agreement.  The fixtures of a call that answered 200
\* are, in order, the matchups of the preview the client computes for the
\* roster the call loaded, in the same order, at the current time the call
\* read: same home team, same away team, same round date.
C7_PreviewPersistAgreement ==
    \A r \in Succeeded :
        RowSchedule(req[r].createdFixtures)
          = EntrySchedule(generateRoundRobinPreview(clientTZ, req[r].now, req[r].teams))

\* C7, what holds: the pairings and their order always agree, and the round
\* dates agree when the server and the browser run in the same time zone
C7_AgreementInOneZone ==
    \A r \in Succeeded :
        LET entries == generateRoundRobinPreview(clientTZ, req[r].now, req[r].teams)
        IN  /\ RowMatchups(req[r].createdFixtures) = EntryMatchups(entries)
            /\ serverTZ = clientTZ =>
                  RowSchedule(req[r].createdFixtures) = EntrySchedule(entries)

\* C8: determinism, as stated: any two calls that answered 200 for the same
\* roster in the same order created the same schedule, whenever each of
\* them ran: same pairings, same order, same round dates.
C8_SameOutputWhenever ==
    \A r1, r2 \in Succeeded :
        req[r1].teams = req[r2].teams =>
            RowSchedule(req[r1].createdFixtures) = RowSchedule(req[r2].createdFixtures)

\* C8: determinism.  Any two calls that answered 200 for the same roster in
\* the same order created the same pairings in the same order, whenever
\* each of them ran, and the same round dates when they read the same
\* current time; and the pairings of the preview on display are those the
\* client computes for the roster at every current time.
C8_Determinism ==
    /\ \A r1, r2 \in Succeeded :
          req[r1].teams = req[r2].teams =>
              /\ RowMatchups(req[r1].createdFixtures) = RowMatchups(req[r2].createdFixtures)
              /\ req[r1].now = req[r2].now =>
                    RowSchedule(req[r1].createdFixtures)
                      = RowSchedule(req[r2].createdFixtures)
    /\ \A now \in SessionInstants :
          EntryMatchups(generateRoundRobinPreview(clientTZ, now, teams))
            = EntryMatchups(preview)

\* two calls for the same roster of 4 teams have answered 200 after reading
\* the same current time, and the preview of the roster is on display
C8_Witness ==
    /\ Len(req) = 2 /\ Succeeded = {1, 2}
    /\ req[1].teams = req[2].teams /\ Len(req[1].teams) = 4
    /\ req[1].now = req[2].now
    /\ Len(teams) = 4 /\ Len(preview) = 6

\* the calendar day and the time of day of the instant d in the zone tz
LocalDay(tz, d) == LocalTime(tz, d.t) \div MinutesPerDay
LocalMinutes(tz, d) == LocalTime(tz, d.t) % MinutesPerDay

\* start is the anchor of now in the zone tz: a Saturday, 1 to 7 calendar
\* days after the day of now with no Saturday in between, 3 days after a
\* Wednesday, 7 days after a Saturday, at 10:00:00.000
AnchorOf(tz, now, start) ==
    LET ahead == LocalDay(tz, start) - LocalDay(tz, now)
    IN  /\ GetDay(tz, start) = 6
        /\ ahead \in 1..7
        /\ \A d \in 1..(ahead - 1) : WeekDay(LocalDay(tz, now) + d) # 6
        /\ GetDay(tz, now) = 3 => ahead = 3
        /\ GetDay(tz, now) = 6 => ahead = 7
        /\ LocalMinutes(tz, start) = 10 * 60
        /\ start.sub = 0

\* call r has computed its start date
StartKnown(r) ==
    req[r].pc \in {"loop", "persist"} \/ (req[r].pc = "done" /\ req[r].status = 200)

\* C9: anchor date.  In the time zone of the runtime, the first round's
\* date is the first Saturday 1 to 7 calendar days after the day of the
\* current time read (3 days after a Wednesday, 7 days after a Saturday,
\* never the same day), at 10:00:00.000: for the start date of the handler
\* and its first fixture, and for the first entry of the preview computed
\* when the teams arrive.
C9_AnchorDate ==
    /\ [](\A r \in 1..Len(req) :
            StartKnown(r) =>
                /\ AnchorOf(serverTZ, req[r].now, req[r].start)
                /\ Len(req[r].createdFixtures) > 0 =>
                      req[r].createdFixtures[1].scheduledAt = req[r].start)
    /\ [][(fetching' < fetching /\ Len(preview') > 0) =>
             AnchorOf(clientTZ, clock', FromISOString(preview'[1].scheduledAt))]_vars

\* a call that read the current time on a Saturday of its zone has answered
\* 200 with a first round 7 days later, and the preview is on display
C9_Witness ==
    /\ \E r \in Succeeded :
          /\ GetDay(serverTZ, req[r].now) = 6
          /\ LocalDay(serverTZ, req[r].start) - LocalDay(serverTZ, req[r].now) = 7
          /\ req[r].createdFixtures[1].scheduledAt = req[r].start
    /\ Len(preview) > 0

\* in the zone tz, the date d is the date d0 plus 7 * k calendar days, at
\* the same time of day
SpacedFrom(tz, d0, k, d) ==
    /\ LocalDay(tz, d) = LocalDay(tz, d0) + 7 * k
    /\ LocalMinutes(tz, d) = LocalMinutes(tz, d0)
    /\ d.sub = d0.sub

\* C10: date spacing.  In the time zone of the runtime, the date of round
\* k (0-based) is round 0's date plus 7 * k calendar days at the same time
\* of day, and the matchups of a round carry one date: for the round date
\* of the handler, for its fixtures (floor(teams/2) per round, in order),
\* and for the entries of the preview by their round number.
C10_DateSpacing ==
    /\ \A r \in 1..Len(req) :
          /\ req[r].pc = "persist" =>
                SpacedFrom(serverTZ, req[r].start, req[r].round, req[r].roundDate)
          /\ StartKnown(r) =>
                \A i \in 1..Len(req[r].createdFixtures) :
                    LET k == (i - 1) \div (Len(req[r].teams) \div 2)
                        first == k * (Len(req[r].teams) \div 2) + 1
                    IN  /\ SpacedFrom(serverTZ, req[r].createdFixtures[1].scheduledAt, k,
                                      req[r].createdFixtures[i].scheduledAt)
                        /\ req[r].createdFixtures[i].scheduledAt
                             = req[r].createdFixtures[first].scheduledAt
    /\ \A i \in 1..Len(preview) :
          /\ SpacedFrom(clientTZ, FromISOString(preview[1].scheduledAt),
                        preview[i].round - 1, FromISOString(preview[i].scheduledAt))
          /\ \A j \in 1..Len(preview) :
                preview[i].round = preview[j].round =>
                    preview[i].scheduledAt = preview[j].scheduledAt

\* a call for 5 teams has answered 200 with its 5 rounds, the last of them
\* 28 days after the first, in another month and on the other side of the
\* change of offset of its zone; the preview of the 5 teams is on display
C10_Witness ==
    /\ \E r \in Succeeded :
          /\ Len(req[r].createdFixtures) = 10
          /\ LocalDay(serverTZ, req[r].createdFixtures[10].scheduledAt)
               = LocalDay(serverTZ, req[r].createdFixtures[1].scheduledAt) + 28
          /\ TZOffset(serverTZ, req[r].createdFixtures[10].scheduledAt.t)
               # TZOffset(serverTZ, req[r].createdFixtures[1].scheduledAt.t)
          /\ ToISOString(req[r].createdFixtures[10].scheduledAt).month
               # ToISOString(req[r].createdFixtures[1].scheduledAt).month
    /\ Len(preview) = 10 /\ preview[10].round = 5

\* the teams of a league, in the table
LeagueTeams(leagueId) == {id \in TeamIds : teamLeague[id] = leagueId}

\* the calls of prisma.fixture.create that call r has issued
CreateCalls(r) == SelectSeq(req[r].calls, LAMBDA c : c.op = "fixture.create")

RosterOf(ts, leagueId) ==
    /\ IdsOf(ts) = LeagueTeams(leagueId)
    /\ Len(ts) = Cardinality(IdsOf(ts))
    /\ \A i \in 1..Len(ts) : ts[i].name = teamName[ts[i].id]

\* C12: no side effect, no state.  The roster a call of the handler has
\* loaded stays what it loaded until the call ends: the teams of the league,
\* without a BYE entry; so does the roster of the page, whose preview was
\* computed from it.  The fixtures a call answers with are those of the
\* schedule of its own roster, current time and zone, whatever calls came
\* before it.
C12_NoSideEffect ==
    /\ [](\A r \in 1..Len(req) :
            req[r].pc \notin {"start", "done"} => RosterOf(req[r].teams, req[r].leagueId))
    /\ [][\A r \in 1..Len(req) :
            req[r].pc # "start" => req'[r].teams = req[r].teams]_vars
    /\ [](fetching = 0 => RosterOf(teams, LeagueId))
    /\ [](\A r \in Succeeded :
            RowSchedule(req[r].body.json)
              = EntrySchedule(generateRoundRobinPreview(serverTZ, req[r].now, req[r].teams)))

\* a second call for an odd roster of 3 teams, for which BYE is appended,
\* has answered 200 after a first one, and the page shows the 3 teams
C12_Witness ==
    /\ Len(req) = 2 /\ Succeeded = {1, 2}
    /\ Len(req[2].teams) = 3 /\ req[2].n = 4 /\ Len(req[2].body.json) = 3
    /\ Len(teams) = 3 /\ Len(preview) = 3 /\ fetching = 0

\* the data of a fixture row: the row without its id
DataOf(row) ==
    [leagueId |-> row.leagueId, homeTeamId |-> row.homeTeamId,
     awayTeamId |-> row.awayTeamId, scheduledAt |-> row.scheduledAt,
     status |-> row.status]

\* C13: one create per matchup.  While a call persists a round, the create
\* calls it has issued for the round are those of the first pairs of the
\* round, one each and in order, with the leagueId of the request, the home
\* and away ids of the pair, the date of the round and status SCHEDULED.  A
\* call that answers 200 for n teams has issued n(n-1)/2 create calls, and
\* its JSON body lists the rows these calls stored, in the order of the
\* calls.
C13_CreateOncePerMatchup ==
    \A r \in 1..Len(req) :
        /\ req[r].pc = "persist" =>
              LET calls == CreateCalls(r)
                  before == Len(calls) - (req[r].p - 1)
              IN  /\ before >= 0
                  /\ \A i \in 1..(req[r].p - 1) :
                        calls[before + i].data
                          = [leagueId |-> req[r].leagueId,
                             homeTeamId |-> req[r].pairs[i].homeId,
                             awayTeamId |-> req[r].pairs[i].awayId,
                             scheduledAt |-> req[r].roundDate,
                             status |-> "SCHEDULED"]
                  /\ \A i \in 1..before : calls[i].data.scheduledAt # req[r].roundDate
        /\ r \in Succeeded =>
              LET calls == CreateCalls(r)
                  n == Len(req[r].teams)
              IN  /\ 2 * Len(calls) = n * (n - 1)
                  /\ req[r].body.json = req[r].createdFixtures
                  /\ Len(req[r].body.json) = Len(calls)
                  /\ \A i \in 1..Len(calls) :
                        /\ DataOf(req[r].body.json[i]) = calls[i].data
                        /\ \E j \in 1..Len(fixtures) : fixtures[j] = req[r].body.json[i]

\* a call for a league of 3 teams has answered 200 with its 3 fixtures
\* while a call for the other league is persisting its second pair
C13_Witness ==
    /\ \E r \in Succeeded :
          Len(req[r].teams) = 3 /\ Len(CreateCalls(r)) = 3 /\ Len(req[r].body.json) = 3
    /\ \E r \in 1..Len(req) : req[r].pc = "persist" /\ req[r].p = 2

\* call r has ended on a create call that rejected
CreateFailed(r) ==
    /\ req[r].pc = "done" /\ req[r].status = 500
    /\ Len(req[r].calls) > 0 /\ req[r].calls[Len(req[r].calls)].op = "fixture.create"

\* the rows of the table that belong to a league, in insertion order
RowsOfLeague(leagueId) == SelectSeq(fixtures, LAMBDA f : f.leagueId = leagueId)

\* C14: partial failure.  When a create call of a call of the handler
\* rejects, the call answers HTTP 500 with the message of the error (or
\* 'Server error' when it has none) and issues no call after it; each of its
\* create calls before that one stored a row, these rows stay in the table,
\* and they are the first fixtures of the schedule of the call, fewer than
\* the whole schedule.  Every create call either stores a row or ends the
\* call this way.
C14_PartialFailure ==
    /\ [](\A r \in 1..Len(req) :
            /\ CreateFailed(r) =>
                  /\ \E err \in ThrownValues : req[r].body = TextBody(ErrorText(err))
                  /\ Len(CreateCalls(r)) = Len(req[r].createdFixtures) + 1
                  /\ RowsOfLeague(req[r].leagueId) = req[r].createdFixtures
                  /\ LET whole == EntrySchedule(generateRoundRobinPreview(
                                       serverTZ, req[r].now, req[r].teams))
                         stored == RowSchedule(req[r].createdFixtures)
                     IN  /\ Len(stored) < Len(whole)
                         /\ \A i \in 1..Len(stored) : stored[i] = whole[i]
            /\ ~CreateFailed(r) => Len(CreateCalls(r)) = Len(req[r].createdFixtures))
    /\ [][\A r \in 1..Len(req) : req[r].pc = "done" => req'[r] = req[r]]_vars

\* a call has ended with 500 on its third create call: the two fixtures it
\* created before are in the table, of the 6 of its schedule
C14_Witness ==
    \E r \in 1..Len(req) :
        /\ CreateFailed(r)
        /\ req[r].body.text = "Can't reach database server"
        /\ Len(req[r].teams) = 4
        /\ Len(req[r].createdFixtures) = 2
        /\ Len(RowsOfLeague(req[r].leagueId)) = 2

\* instant a is earlier than instant b
Before(a, b) == NotAfter(a, b) /\ a # b

\* C15: round order.  In the preview list the round numbers and the dates
\* never decrease, and a later round has a later date; in the sequence of
\* create calls of a call of the handler the dates never decrease, the round
\* counter never decreases, and when the first create of a round is about to
\* be issued every create issued before has an earlier date: all matchups
\* of a round come before any matchup of the next.
C15_RoundOrder ==
    /\ [](\A i, j \in 1..Len(preview) :
            i < j =>
               /\ preview[i].round <= preview[j].round
               /\ NotAfter(FromISOString(preview[i].scheduledAt),
                           FromISOString(preview[j].scheduledAt))
               /\ preview[i].round < preview[j].round =>
                     Before(FromISOString(preview[i].scheduledAt),
                            FromISOString(preview[j].scheduledAt)))
    /\ [](\A r \in 1..Len(req) :
            LET calls == CreateCalls(r)
            IN  /\ \A i, j \in 1..Len(calls) :
                      i < j => NotAfter(calls[i].data.scheduledAt, calls[j].data.scheduledAt)
                /\ (req[r].pc = "persist" /\ req[r].p = 1) =>
                      \A i \in 1..Len(calls) :
                          Before(calls[i].data.scheduledAt, req[r].roundDate))
    /\ [][\A r \in 1..Len(req) : req'[r].round >= req[r].round]_vars

\* a call for 5 teams is about to issue the first create of its last round,
\* after the 8 creates of the rounds before, and the preview of the 5 teams
\* is on display
C15_Witness ==
    /\ \E r \in 1..Len(req) :
          /\ req[r].pc = "persist" /\ req[r].p = 1 /\ req[r].round = 4
          /\ Len(CreateCalls(r)) = 8
    /\ Len(preview) = 10 /\ preview[1].round = 1 /\ preview[10].round = 5

\* the schedule of a league generated at the instant now, by a call alone
ScheduleAlone(leagueId, now) ==
    {EntrySchedule(generateRoundRobinPreview(serverTZ, now, ts)) :
        ts \in FindManyTeams(teamName, teamLeague, leagueId)}

\* C16: concurrent calls for different leagues.  Under every interleaving
\* of the steps of calls for different leagues, every fixture a call has
\* created carries the leagueId of the call and two teams of that league,
\* the fixtures it has created so far are the first of the schedule of its
\* league generated alone, and a call that answers 200 answers with that
\* whole schedule; the rows of the table have different ids.
C16_ConcurrentLeagues ==
    /\ \A r \in 1..Len(req) :
          /\ \A i \in 1..Len(req[r].createdFixtures) :
                LET f == req[r].createdFixtures[i]
                IN  /\ f.leagueId = req[r].leagueId
                    /\ teamLeague[f.homeTeamId] = req[r].leagueId
                    /\ teamLeague[f.awayTeamId] = req[r].leagueId
          /\ req[r].createdFixtures # <<>> =>
                \E whole \in ScheduleAlone(req[r].leagueId, req[r].now) :
                    /\ Len(req[r].createdFixtures) <= Len(whole)
                    /\ \A i \in 1..Len(req[r].createdFixtures) :
                          RowSchedule(req[r].createdFixtures)[i] = whole[i]
          /\ r \in Succeeded =>
                RowSchedule(req[r].body.json) \in ScheduleAlone(req[r].leagueId, req[r].now)
    /\ \A i, j \in 1..Len(fixtures) : fixtures[i].id = fixtures[j].id => i = j

\* calls for two leagues, of 3 and of 2 teams, have both answered 200, and
\* their creates were interleaved: the fixture of the league of 2 teams is
\* neither the first nor the last row of the table
C16_Witness ==
    /\ Len(req) = 2 /\ Succeeded = {1, 2}
    /\ req[1].leagueId # req[2].leagueId
    /\ Len(fixtures) = 4
    /\ \E i \in 2..3 :
          /\ fixtures[i].leagueId # fixtures[1].leagueId
          /\ fixtures[i].leagueId # fixtures[4].leagueId

\* the roster ts ascends by name
AscendsByName(ts) ==
    \A i, j \in 1..Len(ts) : i < j => NameRank(ts[i].name) <= NameRank(ts[j].name)

\* C17: stable roster order.  The roster the page has read through GET
\* /api/teams?leagueId and the roster a call of the handler has read for the
\* same, unchanged league are the same sequence, ascending by name; so are
\* the rosters of any two calls.
C17_StableRosterOrder ==
    \A r \in 1..Len(req) :
        req[r].teams # <<>> =>
            /\ AscendsByName(req[r].teams)
            /\ teams # <<>> => (AscendsByName(teams) /\ req[r].teams = teams)
            /\ \A q \in 1..Len(req) : req[q].teams # <<>> => req[q].teams = req[r].teams

\* C17, what holds: every read ascends by name, and the reads of a league
\* whose teams have different names are the same sequence
C17_StableWithDistinctNames ==
    \A r \in 1..Len(req) :
        req[r].teams # <<>> =>
            /\ AscendsByName(req[r].teams)
            /\ (\A a, b \in LeagueTeams(LeagueId) : teamName[a] = teamName[b] => a = b) =>
                  /\ teams # <<>> => req[r].teams = teams
                  /\ \A q \in 1..Len(req) : req[q].teams # <<>> => req[q].teams = req[r].teams

\* C18: status codes.  A call of the handler without leagueId issues no
\* call of the database, creates no fixture and answers HTTP 400 'Missing
\* leagueId' (500 if reading the body rejected).  A step in which an awaited
\* call rejects ends the call with HTTP 500; a call answers 200, 400 or
\* 500, and one that answers 200 had none of its calls rejected.
C18_StatusCodes ==
    /\ [](\A r \in 1..Len(req) :
            /\ req[r].leagueId = MissingLeagueId =>
                  /\ req[r].calls = <<>>
                  /\ req[r].createdFixtures = <<>>
                  /\ req[r].pc \in {"start", "done"}
                  /\ req[r].pc = "done" =>
                        \/ req[r].status = 400 /\ req[r].body = TextBody("Missing leagueId")
                        \/ req[r].status = 500
            /\ req[r].pc = "done" => req[r].status \in {200, 400, 500}
            /\ r \in Succeeded =>
                  /\ Len(req[r].calls) = 1 + Len(req[r].createdFixtures)
                  /\ req[r].body.text = "")
    /\ [](\A i \in 1..Len(fixtures) : fixtures[i].leagueId # MissingLeagueId)
    /\ [][\A r \in 1..Len(req) :
            (PostJsonThrows(r) \/ PostFindManyThrows(r) \/ PostCreateThrows(r)) =>
                /\ req'[r].pc = "done" /\ req'[r].status = 500
                /\ \E err \in ThrownValues : req'[r].body = TextBody(ErrorText(err))]_vars

\* a call without leagueId has answered 400, a call whose read of the teams
\* rejected has answered 500 'Server error', and the table is empty
C18_Witness ==
    /\ \E r \in 1..Len(req) :
          /\ req[r].leagueId = MissingLeagueId
          /\ req[r].pc = "done" /\ req[r].status = 400
    /\ \E r \in 1..Len(req) :
          /\ req[r].leagueId # MissingLeagueId
          /\ req[r].pc = "done" /\ req[r].status = 500
          /\ req[r].body.text = "Server error"
          /\ Len(req[r].calls) = 1
    /\ fixtures = <<>>

\* q is a / b rounded to the nearest integer, ties upwards (b > 0)
NearestTo(q, a, b) == 2 * b * q - b <= 2 * a /\ 2 * a < 2 * b * q + b

----------------------------------------------------------------------------
(* The rotation *)

\* new is old after one rotation step, in the indices of the arrays (from
\* 0): index 0 stays, the last index goes to index 1, every index j of
\* 1..n'-2 goes to j + 1
RotatedOnce(old, new) ==
    /\ Len(new) = Len(old)
    /\ new[0 + 1] = old[0 + 1]
    /\ new[1 + 1] = old[(Len(old) - 1) + 1]
    /\ \A j \in 1..(Len(old) - 2) : new[(j + 1) + 1] = old[j + 1]
    /\ Len(old) = 2 => new = old

RECURSIVE PreviewRotationAt(_, _)
\* the rotation array of generateRoundRobinPreview at the start of round k
PreviewRotationAt(items, k) ==
    IF k = 0 THEN SliceFrom(items, 0) ELSE PreviewRotate(PreviewRotationAt(items, k - 1))

\* C21: rotation step.  The step that ends a round of a call of the handler
\* leaves the element at index 0 of the rotation where it is, moves the
\* element at the last index to index 1 and every other element one
\* position to the right; an array of 2 is unchanged.  The same holds of
\* every rotation of the preview of the page's roster.
C21_RotationStep ==
    /\ [][\A r \in 1..Len(req) :
            (req[r].pc = "persist" /\ req'[r].pc = "loop")
                => /\ RotatedOnce(req[r].rotation, req'[r].rotation)
                   /\ req'[r].round = req[r].round + 1]_vars
    /\ [](Len(teams) >= 2 =>
            \A k \in 0..(Len(PreviewItems(teams)) - 2) :
                RotatedOnce(PreviewRotationAt(PreviewItems(teams), k),
                            PreviewRotationAt(PreviewItems(teams), k + 1)))

\* a call for 5 teams has rotated twice: the BYE entry, last of the 6 items,
\* went to index 1 and then to index 2, the team that was at index 4 is at
\* index 1, the first team is still at index 0; the page shows 5 teams
C21_Witness ==
    /\ Len(teams) = 5
    /\ \E r \in 1..Len(req) :
          /\ req[r].pc = "loop" /\ req[r].round = 2 /\ req[r].n = 6
          /\ req[r].rotation[1] = req[r].teams[1]
          /\ req[r].rotation[2] = req[r].teams[5]
          /\ req[r].rotation[3].id = BYE
          /\ req[r].rotation[4] = req[r].teams[2]

----------------------------------------------------------------------------
(* The commission of the database and of the application *)

\* round(customerPaysCents * 0.10) as calculateRevenueSplit computes it for
\* customerPaysCents = x: the buyer is no registered player, the rate is the
\* default
AppCommission(x) ==
    calculateRevenueSplit(x, [isRegisteredPlayer |-> FALSE]).commissionAmountCents

\* C22: for every non-negative amount x of an order, the generated column
\* commission_amount_cents, (x + 5) / 10, is the commission
\* calculateRevenueSplit computes for customerPaysCents = x at 10%.
C22_CommissionAgreement ==
    (order # NoOrder /\ order.order_total_cents >= 0) =>
        /\ order.error = ""
        /\ order.commission_amount_cents = AppCommission(order.order_total_cents)

\* the column agrees with the application, and is the tenth of the amount
\* rounded to the nearest cent, half up, for every amount the INSERT
\* accepts, which are those up to Int4Max - 5
C22_AgreementBelowOverflow ==
    (order # NoOrder /\ order.order_total_cents >= 0) =>
        \/ /\ order.error = ""
            /\ order.order_total_cents <= Int4Max - 5
            /\ order.commission_amount_cents = AppCommission(order.order_total_cents)
            /\ order.order_total_cents - 10 * order.commission_amount_cents \in (0 - 5)..4
        \/ /\ order.error = "integer out of range"
            /\ order.order_total_cents > Int4Max - 5

----------------------------------------------------------------------------
(* The sides of the fixed seat *)

\* the number of the rows in which the team is the home side, the away side
HomeRows(rows, id) == Cardinality({i \in 1..Len(rows) : rows[i].homeTeamId = id})
AwayRows(rows, id) == Cardinality({i \in 1..Len(rows) : rows[i].awayTeamId = id})

\* the same of the entries of a preview
HomeEntries(entries, id) == Cardinality({i \in 1..Len(entries) : entries[i].home.id = id})
AwayEntries(entries, id) == Cardinality({i \in 1..Len(entries) : entries[i].away.id = id})

\* the team is first of the roster by name
FirstByName(ts) ==
    \A i \in 1..Len(ts) : NameRank(ts[1].name) <= NameRank(ts[i].name)

\* C23: the fixed seat is always at home.  The first team of the roster of
\* a call, which no team of the roster precedes by name, is never the away
\* side of a fixture the call creates, and is the home side of n - 1 of the
\* fixtures of a call that succeeded, n >= 2 being the size of the roster;
\* the same holds of the preview the page computes for its roster.
C23_FixedSeatAtHome ==
    /\ \A r \in 1..Len(req) :
          req[r].pc \in {"loop", "persist"} \/ r \in Succeeded =>
            /\ FirstByName(req[r].teams)
            /\ AwayRows(req[r].createdFixtures, req[r].teams[1].id) = 0
    /\ \A r \in Succeeded :
            /\ Len(req[r].teams) >= 2
            /\ HomeRows(req[r].body.json, req[r].teams[1].id) = Len(req[r].teams) - 1
            /\ AwayRows(req[r].body.json, req[r].teams[1].id) = 0
    /\ (fetching = 0 /\ Len(teams) >= 2) =>
            /\ FirstByName(teams)
            /\ HomeEntries(preview, teams[1].id) = Len(teams) - 1
            /\ AwayEntries(preview, teams[1].id) = 0

\* a call for 5 teams has succeeded with 4 home games of the first team,
\* while the second team has home and away games; the preview shows the same
C23_Witness ==
    /\ fetching = 0 /\ Len(teams) = 5 /\ HomeEntries(preview, teams[1].id) = 4
    /\ \E r \in Succeeded :
          /\ Len(req[r].teams) = 5
          /\ HomeRows(req[r].body.json, req[r].teams[1].id) = 4
          /\ HomeRows(req[r].body.json, req[r].teams[2].id) > 0
          /\ AwayRows(req[r].body.json, req[r].teams[2].id) > 0

----------------------------------------------------------------------------
(* The roster and the table while calls overlap *)

\* the sequence a is the beginning of the sequence b
IsPrefix(a, b) == Len(a) <= Len(b) /\ \A i \in 1..Len(a) : a[i] = b[i]

\* the schedule of the roster call r has read, at the time it has read
SnapshotSchedule(r) ==
    EntrySchedule(generateRoundRobinPreview(serverTZ, req[r].now, req[r].teams))

\* the reads of the teams call r has issued
FindManyCalls(r) == SelectSeq(req[r].calls, LAMBDA c : c.op = "team.findMany")

\* C24: roster snapshot.  A call of the handler reads the teams of the
\* league once.  Whatever assign and unassign requests are served while it
\* runs, the fixtures it has created are the first fixtures of the schedule
\* of the roster it has read, and all of them when it answers 200: each
\* create stores the fixture of the next pair of that roster, whether or
\* not its teams are still in the league.
C24_RosterSnapshot ==
    /\ [](\A r \in 1..Len(req) : Len(FindManyCalls(r)) <= 1)
    /\ [](\A r \in 1..Len(req) :
            req[r].pc \in {"loop", "persist"} \/ r \in Succeeded =>
                IsPrefix(RowSchedule(req[r].createdFixtures), SnapshotSchedule(r)))
    /\ [](\A r \in Succeeded : RowSchedule(req[r].body.json) = SnapshotSchedule(r))
    /\ [][\A r \in 1..Len(req) :
            (req[r].pc = "persist" /\ req[r].p <= Len(req[r].pairs)
                /\ req'[r] # req[r] /\ req'[r].pc = "persist") =>
                /\ fixtures' = Append(fixtures, FixtureRow(Len(fixtures) + 1, CreateData(r)))
                /\ req'[r].createdFixtures = Append(req[r].createdFixtures,
                                                    fixtures'[Len(fixtures')])]_vars

\* a team was unassigned after call 1 had read the roster and before call 2
\* read it; call 2 has created a fixture, and after it call 1 has created a
\* fixture for the team, which was no longer in the league
C24_Witness ==
    \E t \in TeamIds :
        /\ Len(moves) = 1 /\ moves[1].pc = "done" /\ moves[1].status = 200
        /\ moves[1].method = "DELETE" /\ moves[1].teamId = t
        /\ teamLeague[t] # LeagueId
        /\ Len(req) = 2
        /\ t \in IdsOf(req[1].teams)
        /\ Len(req[2].teams) >= 2 /\ t \notin IdsOf(req[2].teams)
        /\ \E i \in 1..Len(req[2].createdFixtures), j \in 1..Len(req[1].createdFixtures) :
              /\ req[2].createdFixtures[i].id < req[1].createdFixtures[j].id
              /\ t \in {req[1].createdFixtures[j].homeTeamId,
                         req[1].createdFixtures[j].awayTeamId}

\* the number of the fixtures of the league between the two teams of P
PairRows(P) ==
    Cardinality({i \in 1..Len(fixtures) :
                    /\ fixtures[i].leagueId = LeagueId
                    /\ {fixtures[i].homeTeamId, fixtures[i].awayTeamId} = P})

\* C25: generation adds to the fixtures.  A call of the handler issues no
\* call but the read of the teams and the creates; no step removes or
\* changes a row of the table.  A call that answers 200 has added the
\* n(n-1)/2 fixtures of its roster.  While the league is unchanged, every
\* unordered pair of its teams has at least as many fixtures as calls have
\* answered 200 and at most as many as calls were made, and exactly k when
\* all k calls have answered, overlapping or not.
C25_FixturesAccumulate ==
    /\ [][IsPrefix(fixtures, fixtures')]_vars
    /\ [](\A r \in 1..Len(req) : \A i \in 1..Len(req[r].calls) :
            req[r].calls[i].op \in {"team.findMany", "fixture.create"})
    /\ [](\A r \in Succeeded :
            /\ 2 * Len(req[r].body.json) = Len(req[r].teams) * (Len(req[r].teams) - 1)
            /\ \A i \in 1..Len(req[r].body.json) :
                  fixtures[req[r].body.json[i].id] = req[r].body.json[i])
    /\ [](moves = <<>> =>
            \A P \in UnorderedPairs(LeagueTeams(LeagueId)) :
                /\ Cardinality(Succeeded) <= PairRows(P)
                /\ PairRows(P) <= Len(req)
                /\ (\A r \in 1..Len(req) : req[r].pc = "done") => PairRows(P) = Len(req))

\* two calls for an unchanged league of 2 teams have both answered 200; the
\* call made second created its fixture first, while the first call was
\* running; the pair has 2 fixtures
C25_Witness ==
    /\ moves = <<>>
    /\ Len(req) = 2 /\ Succeeded = {1, 2}
    /\ Cardinality(LeagueTeams(LeagueId)) = 2
    /\ req[2].body.json[1].id < req[1].body.json[1].id
    /\ Len(fixtures) = 2
    /\ \A P \in UnorderedPairs(LeagueTeams(LeagueId)) : PairRows(P) = 2


\* how often the team of an id is in a list
TimesIn(list, id) == Cardinality({i \in 1..Len(list) : list[i].id = id})

\* no team is more than once in the two lists of the component together
NoTeamTwice ==
    \A id \in TeamIds :
        TimesIn(dragDrop.unassigned, id) + TimesIn(dragDrop.leagueTeams, id) <= 1

\* the server has answered a request of the method for the team with ok
Confirmed(method, id) ==
    \E m \in 1..Len(moves) :
        /\ moves[m].method = method
        /\ moves[m].teamId = id
        /\ moves[m].pc = "done"
        /\ moves[m].status = 200

\* a team that leaves one list and enters the other in a step of onDragEnd
\* (a step that is not the end of fetchLists, which sets both lists from
\* the responses of the server) has a request for this move that the server
\* confirmed
MovedAfterConfirmation ==
    lists' = lists =>
    \A id \in TeamIds :
        /\ (/\ id \in IdsOf(dragDrop.unassigned) \ IdsOf(dragDrop.leagueTeams)
            /\ id \in IdsOf(dragDrop'.leagueTeams) \ IdsOf(dragDrop'.unassigned))
           => Confirmed("POST", id)
        /\ (/\ id \in IdsOf(dragDrop.leagueTeams) \ IdsOf(dragDrop.unassigned)
            /\ id \in IdsOf(dragDrop'.unassigned) \ IdsOf(dragDrop'.leagueTeams))
           => Confirmed("DELETE", id)

\* a step of onDragEnd that changes the lists of the component at once, that
\* is a drop in the list the drag started from, leaves each team as often in
\* each list as it was, and sends no request
SameListOnlyReorders ==
    (/\ dragDrop' # dragDrop
     /\ drags' = drags
     /\ lists' = lists)
    => /\ moves' = moves
       /\ \A id \in TeamIds :
             /\ TimesIn(dragDrop'.unassigned, id) = TimesIn(dragDrop.unassigned, id)
             /\ TimesIn(dragDrop'.leagueTeams, id) = TimesIn(dragDrop.leagueTeams, id)
       /\ dragDrop'.unassigned = dragDrop.unassigned
             \/ dragDrop'.leagueTeams = dragDrop.leagueTeams

\* C26: the two lists of TeamDragDrop, 'unassigned' and 'league', never hold a
\* team more than once between them, also when a drag ends while the request
\* of an earlier drag is in flight; a team goes from one list to the other
\* only after the server confirmed the request to assign or unassign it; a
\* drop in the list the drag started from only reorders that list and sends
\* no request
C26_ListConsistency ==
    /\ []NoTeamTwice
    /\ [][MovedAfterConfirmation]_vars
    /\ [][SameListOnlyReorders]_vars

\* C26, the parts that hold: a team changes lists only with a confirmed
\* request, a drop in the same list only reorders
C26_ConfirmedMovesAndReorders ==
    /\ [][MovedAfterConfirmation]_vars
    /\ [][SameListOnlyReorders]_vars

====
